---- MODULE Spec2Model ----
(***************************************************************************)
(* Model of the goswift toolkit: the SSE broadcaster (goswift/sse.go) as   *)
(* driven by the /docs/:id/subscribe and PUT /docs/:id handlers of main.go *)
(* and the route table with its matcher (goswift/router.go), the dispatch  *)
(* of a request through the middleware chain (Engine.ServeHTTP,            *)
(* applyMiddleware, defaultErrorHandler) and TimeoutMiddleware.            *)
(***************************************************************************)
EXTENDS Integers, Sequences, FiniteSets, TLC

\* ------------------------------------------------------------------------
\* Bounds of the model
\* ------------------------------------------------------------------------
MaxPub == 2        \* Broadcast calls in one behaviour of Spec
MaxPubDrop == 6    \* Broadcast calls in one behaviour of SpecDrop
MaxPubLive == 1    \* Broadcast calls in one behaviour of SpecLive
MaxPubRefill == 7  \* Broadcast calls in one behaviour of SpecRefill
MaxPubDup == 2     \* Broadcast calls in one behaviour of SpecDup
MaxRegRace == 2    \* routes registered in one behaviour of SpecRace
MaxSessions == 2  \* CreateSession calls in one behaviour of SpecSession
MaxClock == 3  \* the latest reading of the clock in SpecSession

MaxGroupUse == 3  \* RouterGroup.Use calls in one behaviour of SpecGroup
MaxGroupRoutes == 1  \* verb calls on the group in one behaviour of SpecGroup
MaxChainCalls == 2  \* Before and After calls on builders in one behaviour of SpecGroup

MaxLockCalls == 3  \* Broadcast calls in one behaviour of SpecLock




MaxTicks == 1      \* ticker firings answered per connection
MaxZero == 1       \* receives from a closed, empty channel per connection
MaxReg == 3        \* routes registered in one behaviour of SpecRouter
MaxRegParams == 3  \* routes registered in one behaviour of SpecParams
MaxRegDispatch == 1  \* routes registered in one behaviour of SpecDispatch
MaxBuilders == 2
MaxRegBuilder == 2
MaxSets == 2
MaxWrites == 2
MaxFrames == 2
MaxBeats == 2




\* ------------------------------------------------------------------------
\* Program constants
\* ------------------------------------------------------------------------
ChanCap == 5       \* make(chan string, 5)

Conns == {1, 2}
Pubs == {1, 2}
Topics == {"d1", "d2"}
Ids == {"u1", "u2"}
Msgs == {"a", "b"}
Contents == <<"m1", "m2", "m3", "m4", "m5", "m6", "m7", "m8">>

VARIABLES
    clients,    \* sm.clients: docID -> (clientID -> channel), a channel is named by its connection
    chans,      \* the channels made by AddClient: buffer and closed flag
    req,        \* position of each subscribing request: "idle", "subscribed", "returned"
    gone,       \* the client of the connection has disconnected
    sub,        \* docID and clientID captured by the connection's AddClient call
    loop,       \* serving goroutine of the connection: "none", "run", "done"
    tick,       \* a value is waiting in ticker.C
    out,        \* frames written to c.Writer by the serving goroutine
    bc,         \* Broadcast calls in progress (holding the read lock)
    offered,    \* history: messages Broadcast tried to send on the connection's channel
    pubCount,   \* history: number of Broadcast calls started
    panicked,   \* a send on a closed channel or a second close happened
    routes,     \* Router.routes: method -> (pattern -> route)
    regCount,   \* history: number of routes registered
    calls,      \* history: the MatchRoute calls made on the current route table
    mw,         \* Engine.middleware: the global units, in Use order
    grpMw,      \* RouterGroup.middleware of the group with prefix /docs
    resp,       \* history: what the latest ServeHTTP call did
    tmo,        \* the requests running under TimeoutMiddleware
    fatal,      \* a registration panicked: the pattern did not compile
    builders,   \* the RouteBuilders returned by AddRoute, in call order
    ctxs,       \* the Context of each request: position in the chain, data, Writer
    ctxLog,     \* history: the Set, Get, WriteHeader and Write calls on each Context
    wire,       \* the characters written to one event stream, and the messages they carry
    tbl,        \* the accesses to Router.routes in progress: readers, writer, fatal error
    mu,         \* sm.mu and the position of every goroutine that uses it
    rcv,        \* the requests running under RecoveryMiddleware, and the server process
    grp,        \* a RouterGroup, the builders of its verb calls, their routes, and the arrays behind the slices
    tq,         \* the AsyncTaskQueue: flag, mutex, channels, WaitGroup, and the callers, workers and Shutdown
    ssn         \* the SessionManager, the clock, and the latest AuthMiddleware call

sseVars == <<clients, chans, req, gone, sub, loop, tick, out, bc, offered,
             pubCount, panicked>>

routerVars == <<routes, regCount, calls, fatal>>

builderVars == <<builders>>

ctxVars == <<ctxs, ctxLog>>

wireVars == <<wire>>

raceVars == <<tbl>>

lockVars == <<mu>>

recoverVars == <<rcv>>

groupVars == <<grp>>

queueVars == <<tq>>

sessionVars == <<ssn>>

dispatchVars == <<mw, grpMw, resp>>

timeoutVars == <<tmo>>

\* the state outside the broadcaster, outside the router, outside the
\* dispatch, outside the timeout middleware
nonSseVars == <<routerVars, dispatchVars, timeoutVars, builderVars, ctxVars, wireVars, raceVars, lockVars,
    recoverVars, groupVars, queueVars, sessionVars>>
nonRouterVars == <<sseVars, dispatchVars, timeoutVars, builderVars, ctxVars, wireVars, raceVars, lockVars,
    recoverVars, groupVars, queueVars, sessionVars>>
nonDispatchVars == <<sseVars, routerVars, timeoutVars, builderVars, ctxVars, wireVars, raceVars, lockVars,
    recoverVars, groupVars, queueVars, sessionVars>>
nonTimeoutVars == <<sseVars, routerVars, dispatchVars, builderVars, ctxVars, wireVars, raceVars, lockVars,
    recoverVars, groupVars, queueVars, sessionVars>>
nonBuilderVars == <<sseVars, routerVars, dispatchVars, timeoutVars, ctxVars, wireVars, raceVars, lockVars,
    recoverVars, groupVars, queueVars, sessionVars>>
nonCtxVars == <<sseVars, routerVars, dispatchVars, timeoutVars, builderVars, wireVars, raceVars, lockVars,
    recoverVars, groupVars, queueVars, sessionVars>>
nonWireVars == <<sseVars, routerVars, dispatchVars, timeoutVars, builderVars, ctxVars, raceVars, lockVars,
    recoverVars, groupVars, queueVars, sessionVars>>
nonRaceVars == <<sseVars, routerVars, dispatchVars, timeoutVars, builderVars, ctxVars, wireVars, lockVars,
    recoverVars, groupVars, queueVars, sessionVars>>
nonLockVars == <<sseVars, routerVars, dispatchVars, timeoutVars, builderVars, ctxVars, wireVars,
                 raceVars, recoverVars, groupVars, queueVars, sessionVars>>

nonRecoverVars == <<sseVars, routerVars, dispatchVars, timeoutVars, builderVars, ctxVars,
    wireVars, raceVars, lockVars, groupVars, queueVars, sessionVars>>

nonGroupVars == <<sseVars, routerVars, dispatchVars, timeoutVars, builderVars, ctxVars,
    wireVars, raceVars, lockVars, recoverVars, queueVars, sessionVars>>

nonQueueVars == <<sseVars, routerVars, dispatchVars, timeoutVars, builderVars, ctxVars,
    wireVars, raceVars, lockVars, recoverVars, groupVars, sessionVars>>

nonSessionVars == <<sseVars, routerVars, dispatchVars, timeoutVars, builderVars, ctxVars,
    wireVars, raceVars, lockVars, recoverVars, groupVars, queueVars>>

vars == <<sseVars, routerVars, dispatchVars, timeoutVars, builderVars, ctxVars, wireVars,
          raceVars, lockVars, recoverVars, groupVars, queueVars, sessionVars>>

\* ------------------------------------------------------------------------
\* Helpers
\* ------------------------------------------------------------------------
Min(a, b) == IF a < b THEN a ELSE b

Take(s, n) == SubSeq(s, 1, Min(n, Len(s)))

IsPrefix(s, t) == Len(s) <= Len(t) /\ SubSeq(t, 1, Len(s)) = s

RECURSIVE IsSubseq(_, _)
IsSubseq(s, t) ==
    IF s = <<>> THEN TRUE
    ELSE IF t = <<>> THEN FALSE
    ELSE IF Head(s) = Head(t) THEN IsSubseq(Tail(s), Tail(t))
    ELSE IsSubseq(s, Tail(t))

EmptyMap == [x \in {} |-> {}]

MapPut(f, k, v) == [x \in (DOMAIN f) \cup {k} |-> IF x = k THEN v ELSE f[x]]

MapDel(f, k) == [x \in (DOMAIN f) \ {k} |-> f[x]]

DataFrame(m) == [kind |-> "data", payload |-> m]

HeartbeatFrame == [kind |-> "heartbeat", payload |-> ""]

RECURSIVE DataOut(_)
DataOut(fs) ==
    IF fs = <<>> THEN <<>>
    ELSE IF Head(fs).kind = "data" THEN <<Head(fs).payload>> \o DataOut(Tail(fs))
    ELSE DataOut(Tail(fs))

HbCount(fs) == Len(fs) - Len(DataOut(fs))

ZeroCount(fs) == Cardinality({i \in 1..Len(fs) : fs[i] = DataFrame("")})

\* ------------------------------------------------------------------------
\* State of the registry
\* ------------------------------------------------------------------------
\* The connection c is the subscriber stored under its (docID, clientID) key.
Registered(c) ==
    /\ req[c] # "idle"
    /\ sub[c].doc \in DOMAIN clients
    /\ sub[c].id \in DOMAIN clients[sub[c].doc]
    /\ clients[sub[c].doc][sub[c].id] = c

\* c.Request.Context().Done(): net/http cancels the request context when the
\* client's connection closes and when ServeHTTP returns.
CtxDone(c) == gone[c] \/ req[c] = "returned"

\* sm.mu is held for reading by every Broadcast call that is iterating.
Readers == {p \in Pubs : bc[p].pc = "iter"}

IdleBc == [pc |-> "idle", doc |-> "", msg |-> "", todo |-> {}, res |-> EmptyMap]

\* nil, as an error value
NilErr == [kind |-> "nil", StatusCode |-> 0, Message |-> "", Err |-> ""]

\* the requests that come in while TimeoutMiddleware is a global unit
TReqs == {1, 2}

\* a request that has not reached TimeoutMiddleware
\* a request not yet passed to the chain of RecoveryMiddleware
IdleRecover ==
    [pc |-> "idle", chain |-> "", outcome |-> NilErr, inner |-> "none", done |-> <<>>,
     ctxErr |-> "", ret |-> <<>>, status |-> 0]

\* a nil slice: no array, length and capacity 0
NilSlice == [arr |-> 0, len |-> 0, cap |-> 0]

\* the goroutines that call AsyncTaskQueue.Go, one task each, and the workers
Callers == {1, 2}
QueueWorkers == {1, 2}

\* NewAsyncTaskQueue(workers): open channels, the workers in their select
NewAsyncTaskQueue ==
    [isShuttingDown |-> FALSE, mu |-> 0, tasksClosed |-> FALSE, shutdownClosed |-> FALSE,
     wg |-> 0,
     go |-> [k \in Callers |-> [pc |-> "idle", panics |-> FALSE, afterBegun |-> FALSE,
                                afterFlag |-> FALSE]],
     sd |-> "idle",
     wk |-> [w \in QueueWorkers |-> [pc |-> "select", task |-> 0]],
     accepted |-> {}, ran |-> [k \in Callers |-> 0], sendOnClosed |-> FALSE]

\* sessionExpiry, in clock units of twelve hours
sessionExpiry == 2

\* NewSessionManager(): no session; with the clock and what is remembered of
\* every session ever created
NewSessionManager ==
    [sessions |-> EmptyMap, now |-> 0, made |-> 0, born |-> EmptyMap, deleted |-> {},
     auth |-> <<>>]

IdleTimeout ==
    [pc |-> "idle", inner |-> "none", outcome |-> NilErr, done |-> <<>>, ctxErr |-> "",
     woken |-> "", first |-> "", ret |-> <<>>, wh |-> <<>>]

\* the goroutines that use sm.mu: the subscribe handler of each connection
\* (AddClient), the serving loop it starts (RemoveClient), the publishers
Goroutines ==
    ({"add", "loop"} \X Conns) \cup ({"pub"} \X Pubs)

\* the requests whose Context is followed
CReqs == {1, 2}

\* before ServeHTTP has made the Context of the request
NoContext == [pc |-> "idle", data |-> EmptyMap, status |-> 0, size |-> 0]

NoLog == [sets |-> <<>>, got |-> <<>>, whs |-> <<>>, writes |-> <<>>,
          header |-> <<>>, next |-> FALSE, ret |-> NilErr]

\* no request has been dispatched yet
NoResp ==
    [handler |-> "none", pattern |-> <<>>, global |-> <<>>, before |-> <<>>, after |-> <<>>,
     hb |-> [write |-> FALSE, outcome |-> "nil"], shortAt |-> "none", jsonFails |-> FALSE,
     trace |-> <<>>, wh |-> <<>>, body |-> <<>>, errs |-> <<>>, aborted |-> FALSE]

Init ==
    /\ clients = EmptyMap
    /\ chans = [c \in Conns |-> [buf |-> <<>>, closed |-> FALSE]]
    /\ req = [c \in Conns |-> "idle"]
    /\ gone = [c \in Conns |-> FALSE]
    /\ sub = [c \in Conns |-> [doc |-> "", id |-> ""]]
    /\ loop = [c \in Conns |-> "none"]
    /\ tick = [c \in Conns |-> FALSE]
    /\ out = [c \in Conns |-> <<>>]
    /\ bc = [p \in Pubs |-> IdleBc]
    /\ offered = [c \in Conns |-> <<>>]
    /\ pubCount = 0
    /\ panicked = FALSE
    /\ routes = EmptyMap
    /\ regCount = 0
    /\ calls = <<>>
    /\ mw = <<>>
    /\ grpMw = <<>>
    /\ resp = NoResp
    /\ tmo = [r \in TReqs |-> IdleTimeout]
    /\ fatal = FALSE
    /\ builders = <<>>
    /\ ctxs = [r \in CReqs |-> NoContext]
    /\ ctxLog = [r \in CReqs |-> NoLog]
    /\ wire = [bytes |-> <<>>, msgs |-> <<>>, beats |-> 0]
    /\ tbl = [readers |-> EmptyMap, writer |-> <<>>, crashed |-> FALSE]
    /\ mu = [pc |-> [g \in Goroutines |-> IF g[1] = "loop" THEN "none" ELSE "idle"],
             w |-> {}, r |-> {}, calls |-> 0]
    /\ rcv = [req |-> [r \in TReqs |-> IdleRecover], exited |-> FALSE]
    /\ grp = [heap |-> <<>>, mw |-> NilSlice, bld |-> <<>>, rts |-> EmptyMap, ran |-> <<>>, calls |-> 0]
    /\ tq = NewAsyncTaskQueue
    /\ ssn = NewSessionManager

\* ------------------------------------------------------------------------
\* SSEManager.AddClient, called by the subscribe handler of main.go
\* ------------------------------------------------------------------------
\* sm.clients[docID][clientID] = SSEClient{...}, creating the inner map first
RegistryPut(reg, doc, id, c) ==
    MapPut(reg, doc, MapPut(IF doc \in DOMAIN reg THEN reg[doc] ELSE EmptyMap, id, c))

AddClient(c, doc, id, fl) ==
    /\ UNCHANGED nonSseVars
    /\ req[c] = "idle"
    /\ Readers = {}
    /\ clients' = RegistryPut(clients, doc, id, c)
    /\ chans' = [chans EXCEPT ![c] = [buf |-> <<>>, closed |-> FALSE]]
    /\ sub' = [sub EXCEPT ![c] = [doc |-> doc, id |-> id]]
    /\ loop' = [loop EXCEPT ![c] = IF fl THEN "run" ELSE "none"]
    /\ req' = [req EXCEPT ![c] = "subscribed"]
    /\ UNCHANGED <<gone, tick, out, bc, offered, pubCount, panicked>>

\* The subscribe handler returns nil right after AddClient and ServeHTTP
\* returns; net/http then cancels the request's context.
ServeHTTPReturn(c) ==
    /\ UNCHANGED nonSseVars
    /\ req[c] = "subscribed"
    /\ req' = [req EXCEPT ![c] = "returned"]
    /\ UNCHANGED <<clients, chans, gone, sub, loop, tick, out, bc, offered,
                   pubCount, panicked>>

\* The client closes its connection while the request is being served.
ClientDisconnect(c) ==
    /\ UNCHANGED nonSseVars
    /\ req[c] = "subscribed"
    /\ ~gone[c]
    /\ gone' = [gone EXCEPT ![c] = TRUE]
    /\ UNCHANGED <<clients, chans, req, sub, loop, tick, out, bc, offered,
                   pubCount, panicked>>

\* ------------------------------------------------------------------------
\* SSEManager.RemoveClient
\* ------------------------------------------------------------------------
RemoveFound(reg, doc, id) == doc \in DOMAIN reg /\ id \in DOMAIN reg[doc]

\* Variant: the document entry is kept when its last client is deleted
RegistryDel_KeepTopic(reg, doc, id) == [reg EXCEPT ![doc] = MapDel(reg[doc], id)]

\* Variant: the channel is closed and its registry entry stays
RegistryDel_Keep(reg, doc, id) == reg

\* delete(docClients, clientID); delete(sm.clients, docID) when it was the last
RegistryDel(reg, doc, id) ==
    IF DOMAIN reg[doc] = {id} THEN MapDel(reg, doc)
    ELSE [reg EXCEPT ![doc] = MapDel(reg[doc], id)]

RemoveClient(doc, id) ==
    IF RemoveFound(clients, doc, id)
    THEN LET ch == clients[doc][id] IN
         /\ chans' = [chans EXCEPT ![ch].closed = TRUE]
         /\ panicked' = (panicked \/ chans[ch].closed)
         /\ clients' = RegistryDel(clients, doc, id)
    ELSE UNCHANGED <<chans, panicked, clients>>

\* ------------------------------------------------------------------------
\* The serving goroutine started by AddClient: one action per select case
\* ------------------------------------------------------------------------
\* case msg := <-clientChan (a closed, empty channel yields "")
LoopRecv(c) ==
    /\ UNCHANGED nonSseVars
    /\ loop[c] = "run"
    /\ \/ /\ chans[c].buf # <<>>
          /\ out' = [out EXCEPT ![c] = Append(@, DataFrame(Head(chans[c].buf)))]
          /\ chans' = [chans EXCEPT ![c].buf = Tail(@)]
       \/ /\ chans[c].buf = <<>>
          /\ chans[c].closed
          /\ ZeroCount(out[c]) < MaxZero
          /\ out' = [out EXCEPT ![c] = Append(@, DataFrame(""))]
          /\ UNCHANGED chans
    /\ UNCHANGED <<clients, req, gone, sub, loop, tick, bc, offered, pubCount,
                   panicked>>

\* the ticker fires: a value is put in ticker.C unless one is waiting
Tick(c) ==
    /\ UNCHANGED nonSseVars
    /\ loop[c] = "run"
    /\ ~tick[c]
    /\ HbCount(out[c]) < MaxTicks
    /\ tick' = [tick EXCEPT ![c] = TRUE]
    /\ UNCHANGED <<clients, chans, req, gone, sub, loop, out, bc, offered,
                   pubCount, panicked>>

\* Variant: the ticker case consumes the tick and writes nothing
LoopHeartbeat_Silent(c) ==
    /\ UNCHANGED nonSseVars
    /\ loop[c] = "run"
    /\ tick[c]
    /\ tick' = [tick EXCEPT ![c] = FALSE]
    /\ UNCHANGED <<clients, chans, req, gone, sub, loop, out, bc, offered, pubCount,
                   panicked>>

\* case <-ticker.C
LoopHeartbeat(c) ==
    /\ UNCHANGED nonSseVars
    /\ loop[c] = "run"
    /\ tick[c]
    /\ tick' = [tick EXCEPT ![c] = FALSE]
    /\ out' = [out EXCEPT ![c] = Append(@, HeartbeatFrame)]
    /\ UNCHANGED <<clients, chans, req, gone, sub, loop, bc, offered, pubCount,
                   panicked>>

\* case <-c.Request.Context().Done()
LoopCancel(c) ==
    /\ UNCHANGED nonSseVars
    /\ loop[c] = "run"
    /\ CtxDone(c)
    /\ Readers = {}
    /\ RemoveClient(sub[c].doc, sub[c].id)
    /\ loop' = [loop EXCEPT ![c] = "done"]
    /\ UNCHANGED <<req, gone, sub, tick, out, bc, offered, pubCount>>

\* ------------------------------------------------------------------------
\* SSEManager.Broadcast, called by the PUT /docs/:id handler of main.go
\* ------------------------------------------------------------------------
\* Variant: the range loop stops after its first client
Targets_First(reg, doc) ==
    IF doc \in DOMAIN reg THEN {CHOOSE id \in DOMAIN reg[doc] : TRUE} ELSE {}

\* if docClients, ok := sm.clients[docID]; ok { for _, client := range docClients
Targets(reg, doc) == IF doc \in DOMAIN reg THEN DOMAIN reg[doc] ELSE {}

\* Variant: a full queue makes room by discarding its oldest message
TrySend_DropOldest(ch, m) ==
    IF Len(ch.buf) < ChanCap THEN [ch EXCEPT !.buf = Append(@, m)]
    ELSE [ch EXCEPT !.buf = Append(Tail(@), m)]

\* Variant: the queue has no capacity limit
TrySend_Unbounded(ch, m) == [ch EXCEPT !.buf = Append(@, m)]

\* Variant: a full queue is closed
TrySend_CloseOnFull(ch, m) ==
    IF Len(ch.buf) < ChanCap THEN [ch EXCEPT !.buf = Append(@, m)]
    ELSE [ch EXCEPT !.closed = TRUE]

\* select { case client.Chan <- message: default: } on an open channel
TrySend(ch, m) ==
    IF Len(ch.buf) < ChanCap THEN [ch EXCEPT !.buf = Append(@, m)] ELSE ch

SendOutcome(ch) == IF Len(ch.buf) < ChanCap THEN "sent" ELSE "dropped"

BroadcastBegin(p, doc, m) ==
    /\ UNCHANGED nonSseVars
    /\ bc[p].pc = "idle"
    /\ bc' = [bc EXCEPT ![p] = IF Targets(clients, doc) = {} THEN IdleBc
                                ELSE [pc |-> "iter", doc |-> doc, msg |-> m,
                                      todo |-> Targets(clients, doc), res |-> EmptyMap]]
    /\ pubCount' = pubCount + 1
    /\ UNCHANGED <<clients, chans, req, gone, sub, loop, tick, out, offered, panicked>>

\* one iteration of the range loop; the read lock is released after the last
BroadcastSend(p) ==
    /\ UNCHANGED nonSseVars
    /\ bc[p].pc = "iter"
    /\ \E id \in bc[p].todo :
         LET c == clients[bc[p].doc][id] IN
         /\ IF chans[c].closed
            THEN /\ panicked' = TRUE
                 /\ UNCHANGED chans
            ELSE /\ chans' = [chans EXCEPT ![c] = TrySend(@, bc[p].msg)]
                 /\ UNCHANGED panicked
         /\ offered' = [offered EXCEPT ![c] = Append(@, bc[p].msg)]
         /\ bc' = [bc EXCEPT ![p] = IF bc[p].todo = {id} THEN IdleBc
                                ELSE [@ EXCEPT !.todo = @ \ {id},
                                               !.res = MapPut(@, id, SendOutcome(chans[c]))]]
    /\ UNCHANGED <<clients, req, gone, sub, loop, tick, out, pubCount>>

\* ------------------------------------------------------------------------
\* Specifications of the broadcaster
\* ------------------------------------------------------------------------
\* Steps of the connections and of the serving goroutines, without the ticker
ConnStep(cs, docs, ids, fls) ==
    \/ \E c \in cs, doc \in docs, id \in ids, fl \in fls : AddClient(c, doc, id, fl)
    \/ \E c \in cs : ServeHTTPReturn(c)
    \/ \E c \in cs : ClientDisconnect(c)
    \/ \E c \in cs : LoopRecv(c)
    \/ \E c \in cs : LoopCancel(c)

TickStep(cs) ==
    \/ \E c \in cs : Tick(c)
    \/ \E c \in cs : LoopHeartbeat(c)

PubStep(ps, docs, msgs, max) ==
    \/ \E p \in ps, doc \in docs, m \in msgs : pubCount < max /\ BroadcastBegin(p, doc, m)
    \/ \E p \in ps : BroadcastSend(p)

\* Broadcast calls that each carry a content not published before
FreshPubStep(ps, docs, max) ==
    \/ \E p \in ps, doc \in docs, i \in 1..Len(Contents) :
          i = pubCount + 1 /\ pubCount < max /\ BroadcastBegin(p, doc, Contents[i])
    \/ \E p \in ps : BroadcastSend(p)

\* Two connections over two documents and two client ids, two concurrent
\* Broadcast calls; every Broadcast carries a new content
Next ==
    \/ ConnStep(Conns, Topics, Ids, BOOLEAN)
    \/ FreshPubStep(Pubs, Topics, MaxPub)

Spec == Init /\ [][Next]_vars

\* One document with one subscriber per client id and pairwise distinct
\* messages: enough Broadcast calls to overflow a queue
NextDrop ==
    \/ ConnStep({1}, {"d1"}, {"u1"}, {TRUE})
    \/ ConnStep({2}, {"d1"}, {"u2"}, {TRUE})
    \/ FreshPubStep({1}, {"d1"}, MaxPubDrop)

SpecDrop == Init /\ [][NextDrop]_vars

\* One subscriber and enough Broadcast calls to fill its queue, lose a
\* message and deliver a later one after the loop has taken messages out
NextRefill ==
    \/ ConnStep({1}, {"d1"}, {"u1"}, {TRUE})
    \/ FreshPubStep({1}, {"d1"}, MaxPubRefill)

SpecRefill == Init /\ [][NextRefill]_vars

\* SSEManager.RemoveClient called from outside the serving loops
Unsubscribe(doc, id) ==
    /\ UNCHANGED nonSseVars
    /\ Readers = {}
    /\ RemoveClient(doc, id)
    /\ UNCHANGED <<req, gone, sub, loop, tick, out, bc, offered, pubCount>>

\* The same user opening the stream of one document twice, Broadcast calls
\* and RemoveClient calls from outside, in any interleaving
NextDup ==
    \/ ConnStep(Conns, {"d1"}, {"u1"}, {TRUE})
    \/ FreshPubStep(Pubs, {"d1"}, MaxPubDup)
    \/ Unsubscribe("d1", "u1")

SpecDup == Init /\ [][NextDup]_vars

\* ------------------------------------------------------------------------
\* sm.mu, step by step: who asks for the lock, who holds it, who waits
\* ------------------------------------------------------------------------
\* sm.mu.Lock() is called: by AddClient, and by RemoveClient in a serving loop
\* whose request context is done
Lock(g) ==
    /\ g[1] \in {"add", "loop"}
    /\ mu.pc[g] = IF g[1] = "add" THEN "idle" ELSE "wait"
    /\ mu' = [mu EXCEPT !.pc[g] = "want"]
    /\ UNCHANGED nonLockVars

\* Lock returns: no goroutine holds the lock for writing or for reading
LockAcquire(g) ==
    /\ g[1] \in {"add", "loop"}
    /\ mu.pc[g] = "want"
    /\ mu.w = {} /\ mu.r = {}
    /\ mu' = [mu EXCEPT !.pc[g] = "held", !.w = {g}]
    /\ UNCHANGED nonLockVars

\* go func() { ... }() in AddClient, when the writer is a Flusher: the serving
\* loop starts to wait in its select while AddClient still holds the lock
Spawn(c) ==
    /\ mu.pc[<<"add", c>>] = "held"
    /\ mu.pc[<<"loop", c>>] = "none"
    /\ mu' = [mu EXCEPT !.pc[<<"loop", c>>] = "wait"]
    /\ UNCHANGED nonLockVars

\* Variant: the function returns without sm.mu.Unlock()
Unlock_Missing(m, g) == [m EXCEPT !.pc[g] = "out"]

\* defer sm.mu.Unlock() of AddClient and of RemoveClient
Unlock(m, g) == [m EXCEPT !.pc[g] = "out", !.w = {}]

\* AddClient returns (with or without a serving loop), RemoveClient returns
Return(g) ==
    /\ g[1] \in {"add", "loop"}
    /\ mu.pc[g] = "held"
    /\ mu' = Unlock(mu, g)
    /\ UNCHANGED nonLockVars

\* sm.mu.RLock() is called by Broadcast
RLock(g) ==
    /\ g[1] = "pub"
    /\ mu.pc[g] = "idle"
    /\ mu' = [mu EXCEPT !.pc[g] = "want", !.calls = @ + 1]
    /\ UNCHANGED nonLockVars

\* RLock returns: no writer holds the lock and none is waiting for it
RLockAcquire(g) ==
    /\ g[1] = "pub"
    /\ mu.pc[g] = "want"
    /\ mu.w = {}
    /\ \A h \in Goroutines : h[1] = "pub" \/ mu.pc[h] # "want"
    /\ mu' = [mu EXCEPT !.pc[g] = "held", !.r = @ \cup {g}]
    /\ UNCHANGED nonLockVars

\* defer sm.mu.RUnlock(): the sends of Broadcast never wait
RUnlock(g) ==
    /\ g[1] = "pub"
    /\ mu.pc[g] = "held"
    /\ mu' = [mu EXCEPT !.pc[g] = "idle", !.r = @ \ {g}]
    /\ UNCHANGED nonLockVars

\* Handlers subscribing, loops cancelled at any time, concurrent Broadcasts
NextLock ==
    \/ \E g \in Goroutines : Lock(g)
    \/ \E g \in Goroutines : LockAcquire(g)
    \/ \E c \in Conns : Spawn(c)
    \/ \E g \in Goroutines : Return(g)
    \/ \E g \in Goroutines : mu.calls < MaxLockCalls /\ RLock(g)
    \/ \E g \in Goroutines : RLockAcquire(g)
    \/ \E g \in Goroutines : RUnlock(g)

\* a goroutine that can run is scheduled; when a serving loop is cancelled is
\* up to its client
LockFairness ==
    \A g \in Goroutines :
        /\ WF_vars(LockAcquire(g))
        /\ WF_vars(Return(g))
        /\ WF_vars(RLockAcquire(g))
        /\ WF_vars(RUnlock(g))

SpecLock == Init /\ [][NextLock]_vars /\ LockFairness




\* The same user opening the stream of one document twice, with the ticker
NextLive ==
    \/ ConnStep(Conns, {"d1"}, {"u1"}, BOOLEAN)
    \/ TickStep(Conns)
    \/ PubStep({1}, {"d1"}, Msgs, MaxPubLive)

\* Fairness of the goroutines: a goroutine that can run is scheduled, and a
\* select whose case stays ready takes that case (the choice among the ready
\* cases is uniformly random).
LoopFairness ==
    /\ \A c \in Conns : WF_vars(LoopRecv(c))
    /\ \A c \in Conns : WF_vars(LoopHeartbeat(c))
    /\ \A c \in Conns : WF_vars(LoopCancel(c))
    /\ \A p \in Pubs : WF_vars(BroadcastSend(p))

\* The subscribe handler does not block: ServeHTTP returns.
HandlerFairness == \A c \in Conns : WF_vars(ServeHTTPReturn(c))

SpecLive == Init /\ [][NextLive]_vars /\ LoopFairness /\ HandlerFairness

\* The serving loops with the ticker and one message content; nothing is
\* assumed about when a request ends
NextBeat ==
    \/ ConnStep(Conns, {"d1"}, {"u1"}, BOOLEAN)
    \/ TickStep(Conns)
    \/ PubStep({1}, {"d1"}, {"a"}, MaxPubLive)

SpecBeat == Init /\ [][NextBeat]_vars /\ LoopFairness

\* ------------------------------------------------------------------------
\* Properties of the broadcaster
\* ------------------------------------------------------------------------
\* C1 Fan-out isolation: each iteration of a Broadcast to document T enqueues
\* the message on the queue of one subscriber registered under T if that queue
\* has room and changes no other queue; the call visits every subscriber that
\* is registered under T and ends only after the last of them; a call that
\* ends at once found a document without an entry.
FanOutIsolation ==
    [][/\ (bc' = bc /\ pubCount' # pubCount) =>
            /\ chans' = chans
            /\ \E doc \in Topics : doc \notin DOMAIN clients
       /\ \A p \in Pubs :
         /\ (bc[p].pc = "idle" /\ bc'[p].pc = "iter") =>
               /\ chans' = chans
               /\ bc'[p].todo = DOMAIN clients[bc'[p].doc]
         /\ (bc[p].pc = "iter" /\ bc'[p] # bc[p]) =>
               \E id \in bc[p].todo :
                  LET c == clients[bc[p].doc][id] IN
                  /\ Registered(c)
                  /\ sub[c].doc = bc[p].doc
                  /\ chans'[c].buf = IF Len(chans[c].buf) < ChanCap
                                     THEN Append(chans[c].buf, bc[p].msg)
                                     ELSE chans[c].buf
                  /\ \A d \in Conns \ {c} : chans'[d] = chans[d]
                  /\ bc[p].todo \cup DOMAIN bc[p].res = DOMAIN clients[bc[p].doc]
                  /\ (bc'[p].pc = "idle") = (bc[p].todo = {id})]_vars

\* a message reached the subscriber of one document and not the subscriber of another
FanOutIsolationWitness ==
    \E c \in Conns, d \in Conns :
        /\ Registered(c) /\ Registered(d)
        /\ sub[c].doc # sub[d].doc
        /\ chans[c].buf # <<>>
        /\ offered[d] = <<>>
        /\ pubCount > 0
        /\ \A p \in Pubs : bc[p].pc = "idle"

\* C2 Drop on overflow: a subscriber that has received nothing from its queue
\* holds exactly the first ChanCap messages offered to it, in publish order,
\* everything it is ever handed starts with those messages, and no Broadcast
\* panics.
DropOnOverflow ==
    /\ ~panicked
    /\ \A c \in Conns :
          /\ DataOut(out[c]) = <<>> => chans[c].buf = Take(offered[c], ChanCap)
          /\ IsPrefix(Take(offered[c], ChanCap), DataOut(out[c]) \o chans[c].buf)

\* more than ChanCap messages were published to a subscriber that is not
\* draining, while the other subscriber of the document got the later ones
DropOnOverflowWitness ==
    \E c \in Conns, d \in Conns :
        /\ Registered(c) /\ Registered(d) /\ c # d
        /\ Len(offered[c]) > ChanCap
        /\ DataOut(out[c]) = <<>>
        /\ Len(chans[c].buf) = ChanCap
        /\ Len(DataOut(out[d])) > ChanCap

\* C3 Publish never blocks: a Broadcast call that is iterating can always take
\* its next step by itself, and no queue holds more than ChanCap messages.
PublishNeverBlocks ==
    /\ \A c \in Conns : Len(chans[c].buf) <= ChanCap
    /\ \A p \in Pubs : bc[p].pc = "iter" => ENABLED BroadcastSend(p)

\* a Broadcast call is about to send to a subscriber whose queue is full
PublishNeverBlocksWitness ==
    \E p \in Pubs :
        /\ bc[p].pc = "iter"
        /\ \E id \in bc[p].todo : Len(chans[clients[bc[p].doc][id]].buf) = ChanCap

\* C4 Per-subscriber FIFO, at most once: the data frames written to a
\* connection are a subsequence of the messages published to its document
\* while it was registered.
FifoAtMostOnce ==
    \A c \in Conns : IsSubseq(DataOut(out[c]), offered[c])

\* C5 Disconnect cleanup: a subscriber whose cancellation signal fired is
\* eventually out of the registry, a subscriber that is out of the registry is
\* never sent to again, and a document entry goes with its last subscriber.
DisconnectCleanup ==
    /\ \A c \in Conns : (req[c] # "idle" /\ CtxDone(c)) ~> ~Registered(c)
    /\ [][\A c \in Conns : (req[c] # "idle" /\ ~Registered(c)) =>
             (offered'[c] = offered[c] /\ Len(chans'[c].buf) <= Len(chans[c].buf))]_vars
    /\ [](\A doc \in DOMAIN clients : DOMAIN clients[doc] # {})

\* C6 Subscriber lifetime equals connection lifetime: while the client has not
\* closed the connection of a subscribing request, its subscriber is
\* registered and its serving loop runs.
LifetimeIsConnection ==
    \A c \in Conns : (req[c] # "idle" /\ ~gone[c]) => (Registered(c) /\ loop[c] = "run")

\* C7 Heartbeat liveness: when a tick is waiting for a serving loop that runs,
\* the loop eventually takes the tick and writes a heartbeat frame as its
\* latest frame, unless the loop ends first.
HeartbeatLiveness ==
    \A c \in Conns :
        (tick[c] /\ loop[c] = "run")
            ~> (\/ ~tick[c] /\ out[c] # <<>> /\ out[c][Len(out[c])] = HeartbeatFrame
                \/ loop[c] # "run")

\* a heartbeat frame was written on a connection that saw no message
HeartbeatLivenessWitness ==
    \E c \in Conns :
        /\ HbCount(out[c]) > 0
        /\ offered[c] = <<>>
        /\ loop[c] = "run"
        /\ ~gone[c]

\* C8 Topic lifecycle: a document has an entry in the registry exactly when a
\* subscriber is registered under it; no entry maps to an empty client map.
TopicLifecycle ==
    /\ \A doc \in DOMAIN clients : DOMAIN clients[doc] # {}
    /\ \A doc \in Topics :
          (doc \in DOMAIN clients) <=> (\E c \in Conns : Registered(c) /\ sub[c].doc = doc)

\* the last subscriber of a document left while another document keeps one
TopicLifecycleWitness ==
    \E c \in Conns, d \in Conns :
        /\ loop[c] = "done"
        /\ sub[c].doc \notin DOMAIN clients
        /\ Registered(d)
        /\ pubCount > 0

\* ------------------------------------------------------------------------
\* Router: strings are sequences of characters
\* ------------------------------------------------------------------------
Methods == {"GET", "POST"}
Handlers == <<"h1", "h2", "h3", "h4", "h5">>
Digits == {"0", "1", "2", "3", "4", "5", "6", "7", "8", "9"}

PatDocsId == <<"/", "d", "o", "c", "s", "/", ":", "i", "d">>
PatDocsNew == <<"/", "d", "o", "c", "s", "/", "n", "e", "w">>
PatDocsNum == PatDocsId \o <<"(", "[", "0", "-", "9", "]", "+", ")">>
PatDocsWild == <<"/", "d", "o", "c", "s", "/", "*">>
PatAnyNew == <<"/", ":", "a", "/", "n", "e", "w">>
PatTwo == <<"/", ":", "a", "/", ":", "b">>
Patterns == {PatDocsId, PatDocsNew, PatDocsNum, PatDocsWild, PatAnyNew, PatTwo}
\* a constraint that regexp.Compile rejects: "/docs/:id([0-9"
PatBad == PatDocsId \o <<"(", "[", "0", "-", "9">>

PathDocsNew == <<"/", "d", "o", "c", "s", "/", "n", "e", "w">>
PathDocs42 == <<"/", "d", "o", "c", "s", "/", "4", "2">>
PathDocs == <<"/", "d", "o", "c", "s">>
Paths == {PathDocsNew, PathDocs42, PathDocs42 \o <<"/">>, PathDocs}

ConstraintAny == <<"(", "[", "^", "/", "]", "+", ")">>
ConstraintNum == <<"(", "[", "0", "-", "9", "]", "+", ")">>

\* strings.Index(s, ch), 0 when ch does not occur
IndexOf(s, ch) ==
    IF \E i \in 1..Len(s) : s[i] = ch
    THEN CHOOSE i \in 1..Len(s) : s[i] = ch /\ \A j \in 1..(i - 1) : s[j] # ch
    ELSE 0

\* strings.Split(s, "/")
RECURSIVE Split(_)
Split(s) ==
    LET i == IndexOf(s, "/") IN
    IF i = 0 THEN <<s>>
    ELSE <<SubSeq(s, 1, i - 1)>> \o Split(SubSeq(s, i + 1, Len(s)))

\* the piece of the regular expression built for one part of the pattern
CompilePart(part) ==
    IF part # <<>> /\ Head(part) = ":"
    THEN LET name == Tail(part)
             idx == IndexOf(name, "(")
             constraint == IF idx # 0 THEN SubSeq(name, idx, Len(name)) ELSE ConstraintAny
         IN  [kind |-> "param",
              name |-> IF idx # 0 THEN SubSeq(name, 1, idx - 1) ELSE name,
              class |-> IF constraint = ConstraintAny THEN "nonslash"
                        ELSE IF constraint = ConstraintNum THEN "digits"
                        ELSE "invalid",
              text |-> <<>>]
    ELSE IF part = <<"*">>
    THEN [kind |-> "wild", name |-> <<"w", "i", "l", "d", "c", "a", "r", "d">>,
          class |-> "any", text |-> <<>>]
    ELSE [kind |-> "lit", name |-> <<>>, class |-> "", text |-> part]

\* rePattern: the pieces of the non-empty parts, in order
RECURSIVE CompileParts(_)
CompileParts(parts) ==
    IF parts = <<>> THEN <<>>
    ELSE IF Head(parts) = <<>> THEN CompileParts(Tail(parts))
    ELSE <<CompilePart(Head(parts))>> \o CompileParts(Tail(parts))

\* paramNames: the names of the parameter and wildcard pieces, in order
RECURSIVE ParamNames(_)
ParamNames(es) ==
    IF es = <<>> THEN <<>>
    ELSE IF Head(es).kind = "lit" THEN ParamNames(Tail(es))
    ELSE <<Head(es).name>> \o ParamNames(Tail(es))

InClass(ch, class) ==
    IF class = "digits" THEN ch \in Digits
    ELSE IF class = "nonslash" THEN ch # "/"
    ELSE TRUE

NoMatch == [ok |-> FALSE, caps |-> <<>>]

\* rt.regex.FindStringSubmatch: the pieces, each after a "/", then "/?$";
\* a greedy repetition takes the longest run that lets the rest match
RECURSIVE FindSubmatch(_, _)
FindSubmatch(es, s) ==
    IF es = <<>>
    THEN IF s = <<>> \/ s = <<"/">> THEN [ok |-> TRUE, caps |-> <<>>] ELSE NoMatch
    ELSE IF s = <<>> \/ Head(s) # "/" THEN NoMatch
    ELSE LET e == Head(es)
             r == Tail(s)
             Rest(k) == FindSubmatch(Tail(es), SubSeq(r, k + 1, Len(r)))
         IN  IF e.kind = "lit"
             THEN IF IsPrefix(e.text, r) THEN Rest(Len(e.text)) ELSE NoMatch
             ELSE LET lo == IF e.kind = "wild" THEN 0 ELSE 1
                      ks == {k \in lo..Len(r) :
                                /\ \A i \in 1..k : InClass(r[i], e.class)
                                /\ Rest(k).ok}
                  IN  IF ks = {} THEN NoMatch
                      ELSE LET k == CHOOSE x \in ks : \A y \in ks : y <= x
                           IN  [ok |-> TRUE, caps |-> <<SubSeq(r, 1, k)>> \o Rest(k).caps]

\* params[name] = matches[i+1] for every name that has a capture
BindParams(names, caps) ==
    [n \in {names[i] : i \in 1..Min(Len(names), Len(caps))} |->
        caps[CHOOSE i \in 1..Min(Len(names), Len(caps)) :
                /\ names[i] = n
                /\ \A j \in (i + 1)..Min(Len(names), Len(caps)) : names[j] # n]]

\* RouteBuilder.Handler: compile the pattern and store the route
CompileRoute(path, handler, before, after) ==
    [handler |-> handler, pattern |-> path, before |-> before, after |-> after,
     regex |-> CompileParts(Split(path)),
     paramNames |-> ParamNames(CompileParts(Split(path)))]

\* regexp.Compile(rePattern) returns no error
RegexValid(es) == \A i \in 1..Len(es) : es[i].class # "invalid"

\* rb.router.routes[rb.method][rb.path] = route{...}
StoreRoute(method, path, handler, before, after) ==
    MapPut(routes, method,
           MapPut(IF method \in DOMAIN routes THEN routes[method] ELSE EmptyMap,
                  path, CompileRoute(path, handler, before, after)))

\* Variant: the route is stored before the compile error is looked at
Register_StoreFirst(method, path, handler, before, after) ==
    /\ routes' = StoreRoute(method, path, handler, before, after)
    /\ fatal' = ~RegexValid(CompileParts(Split(path)))

\* if err != nil { panic(...) } comes before the store
Register(method, path, handler, before, after) ==
    IF RegexValid(CompileParts(Split(path)))
    THEN /\ routes' = StoreRoute(method, path, handler, before, after)
         /\ fatal' = FALSE
    ELSE /\ routes' = routes
         /\ fatal' = TRUE

\* RouteBuilder.Handler; nothing runs after a registration has panicked
Handler(method, path, handler, before, after) ==
    /\ ~fatal
    /\ Register(method, path, handler, before, after)
    /\ regCount' = regCount + 1
    /\ calls' = <<>>
    /\ UNCHANGED nonRouterVars

NilMatch == [handler |-> "nil", pattern |-> <<>>, params |-> EmptyMap, len |-> -1]

\* Variant: the first matching route the loop visits is kept
Better_First(pattern, best) == best.len = -1

\* if len(pattern) > longestMatchLen
Better(pattern, best) == Len(pattern) > best.len

\* Visit with bestMatchParams assigned outside the length check
Visit_ParamsAlways(rt, requestPath, best) ==
    LET matches == FindSubmatch(rt.regex, requestPath) IN
    IF matches.ok /\ Better(rt.pattern, best)
    THEN [handler |-> rt.handler, pattern |-> rt.pattern,
          params |-> BindParams(rt.paramNames, matches.caps), len |-> Len(rt.pattern)]
    ELSE IF matches.ok
    THEN [best EXCEPT !.params = BindParams(rt.paramNames, matches.caps)]
    ELSE best

\* the body of the range loop of MatchRoute for one route
Visit(rt, requestPath, best) ==
    LET matches == FindSubmatch(rt.regex, requestPath) IN
    IF matches.ok /\ Better(rt.pattern, best)
    THEN [handler |-> rt.handler, pattern |-> rt.pattern,
          params |-> BindParams(rt.paramNames, matches.caps), len |-> Len(rt.pattern)]
    ELSE best

RECURSIVE Scan(_, _, _, _)
Scan(methodRoutes, order, requestPath, best) ==
    IF order = <<>> THEN best
    ELSE Scan(methodRoutes, Tail(order), requestPath,
              Visit(methodRoutes[Head(order)], requestPath, best))

\* the orders in which a range loop can visit the keys of a map
Orders(S) == {f \in [1..Cardinality(S) -> S] : \A i, j \in DOMAIN f : f[i] = f[j] => i = j}

\* the result of MatchRoute when the range loop visits the patterns in order
Resolve(method, requestPath, order) ==
    IF method \in DOMAIN routes
    THEN Scan(routes[method], order, requestPath, NilMatch)
    ELSE NilMatch

\* the orders the range loop of MatchRoute can take for a method
RouteOrders(method) ==
    Orders(IF method \in DOMAIN routes THEN DOMAIN routes[method] ELSE {})

\* Router.MatchRoute, as called by Engine.ServeHTTP
MatchRoute(method, requestPath) ==
    /\ \E order \in RouteOrders(method) :
          LET best == Resolve(method, requestPath, order)
          IN  calls' = <<[method |-> method, path |-> requestPath,
                          handler |-> best.handler, params |-> best.params]>>
    /\ UNCHANGED <<routes, regCount, fatal>>
    /\ UNCHANGED nonRouterVars

NextRouter ==
    \/ \E method \in Methods, path \in Patterns :
          regCount < MaxReg /\ Handler(method, path, Handlers[regCount + 1], <<>>, <<>>)
    \/ \E method \in Methods, path \in Paths : MatchRoute(method, path)

SpecRouter == Init /\ [][NextRouter]_vars

\* The routes of one method, with named parameters and a literal route
NextParams ==
    \/ \E path \in {PatDocsId, PatDocsNum, PatAnyNew, PatTwo, PatDocsNew} :
          regCount < MaxRegParams /\ Handler("GET", path, Handlers[regCount + 1], <<>>, <<>>)
    \/ \E path \in Paths : MatchRoute("GET", path)

SpecParams == Init /\ [][NextParams]_vars

\* ------------------------------------------------------------------------
\* Engine.GET/POST/... return e.router.AddRoute(method, path, handler)
\* ------------------------------------------------------------------------
\* Router.AddRoute: a new RouteBuilder, the route table is not touched
AddRoute(method, path, handler) ==
    /\ ~fatal
    /\ builders' = Append(builders, [method |-> method, path |-> path, handler |-> handler,
                                     before |-> <<>>, after |-> <<>>])
    /\ UNCHANGED nonBuilderVars

\* Verb calls, Handler calls on the builders they returned, and requests
NextBuilder ==
    \/ \E method \in Methods, path \in {PatDocsId, PatDocsNew, PatBad} :
          Len(builders) < MaxBuilders /\ AddRoute(method, path, Handlers[Len(builders) + 1])
    \/ \E i \in 1..Len(builders) :
          /\ regCount < MaxRegBuilder
          /\ Handler(builders[i].method, builders[i].path, builders[i].handler,
                     builders[i].before, builders[i].after)
    \/ \E method \in Methods, path \in Paths : ~fatal /\ MatchRoute(method, path)

SpecBuilder == Init /\ [][NextBuilder]_vars

\* ------------------------------------------------------------------------
\* Router.routes read by the serving workers and written by Handler, step by
\* step: the Router has no lock
\* ------------------------------------------------------------------------
\* the goroutines net/http runs ServeHTTP on
Workers == {1, 2}

\* MatchRoute begins: methodRoutes, ok := r.routes[method] and the range loop
MatchBegin(w, method, requestPath) ==
    /\ ~tbl.crashed
    /\ w \notin DOMAIN tbl.readers
    /\ tbl' = [tbl EXCEPT !.readers = MapPut(@, w, [method |-> method, path |-> requestPath])]
    /\ UNCHANGED nonRaceVars

\* MatchRoute returns what its loop found in the table
MatchEnd(w) ==
    /\ ~tbl.crashed
    /\ w \in DOMAIN tbl.readers
    /\ \E order \in RouteOrders(tbl.readers[w].method) :
          calls' = <<[method |-> tbl.readers[w].method, path |-> tbl.readers[w].path,
                      handler |-> Resolve(tbl.readers[w].method, tbl.readers[w].path,
                                          order).handler,
                      params |-> Resolve(tbl.readers[w].method, tbl.readers[w].path,
                                         order).params]>>
    /\ tbl' = [tbl EXCEPT !.readers = MapDel(@, w)]
    /\ UNCHANGED <<routes, regCount, fatal, sseVars, dispatchVars, timeoutVars, builderVars,
                   ctxVars, wireVars, lockVars, recoverVars, groupVars, queueVars, sessionVars>>

\* Handler, called by a goroutine of the application, begins the assignment
\* rb.router.routes[rb.method][rb.path] = route{...}
StoreBegin(method, path, handler) ==
    /\ ~tbl.crashed
    /\ tbl.writer = <<>>
    /\ RegexValid(CompileParts(Split(path)))
    /\ tbl' = [tbl EXCEPT !.writer = <<[method |-> method, path |-> path, handler |-> handler]>>]
    /\ UNCHANGED nonRaceVars

\* the assignment is complete
StoreEnd ==
    /\ ~tbl.crashed
    /\ tbl.writer # <<>>
    /\ routes' = StoreRoute(tbl.writer[1].method, tbl.writer[1].path, tbl.writer[1].handler,
                            <<>>, <<>>)
    /\ regCount' = regCount + 1
    /\ tbl' = [tbl EXCEPT !.writer = <<>>]
    /\ UNCHANGED <<calls, fatal, sseVars, dispatchVars, timeoutVars, builderVars, ctxVars,
                   wireVars, lockVars, recoverVars, groupVars, queueVars, sessionVars>>

\* the runtime detects a map read during a map write: "fatal error:
\* concurrent map read and map write" ends the process
RaceAbort ==
    /\ ~tbl.crashed
    /\ tbl.writer # <<>>
    /\ tbl.readers # EmptyMap
    /\ tbl' = [tbl EXCEPT !.crashed = TRUE]
    /\ UNCHANGED nonRaceVars

\* Workers serving requests while the application registers routes
NextRace ==
    \/ \E w \in Workers, path \in {PathDocsNew, PathDocs42} : MatchBegin(w, "GET", path)
    \/ \E w \in Workers : MatchEnd(w)
    \/ \E path \in {PatDocsId, PatDocsNew, PatAnyNew} :
          regCount < MaxRegRace /\ StoreBegin("GET", path, Handlers[regCount + 1])
    \/ StoreEnd
    \/ RaceAbort

SpecRace == Init /\ [][NextRace]_vars



\* ------------------------------------------------------------------------
\* Dispatch: Engine.Use, RouterGroup, Engine.ServeHTTP and the error boundary
\* ------------------------------------------------------------------------
\* the middleware units: two global units that run code on both sides of
\* next, RecoveryMiddleware, a unit of the group, a route-before unit and a
\* route-after unit
GlobalUnits == {"G1", "G2", "Rec"}
GroupPrefix == <<"/", "d", "o", "c", "s">>
GroupPaths == {<<"/", ":", "i", "d">>, <<"/", "n", "e", "w">>}
\* the units given to RouterGroup.Use and the paths given to the verb calls of
\* the group, in call order
GroupUses == <<"Grp", "Grp2", "Grp3", "Grp4", "Grp5">>
BeforeUnits == <<"B", "B2", "B3", "B4">>
GroupRoutes == <<<<"/", ":", "i", "d">>, <<"/", "n", "e", "w">>, <<"/", "a", "l", "l">>>>

\* NewHTTPError(statusCode, message, errs...)
NewHTTPError(statusCode, message, cause) ==
    [kind |-> "HTTPError", StatusCode |-> statusCode, Message |-> message, Err |-> cause]

\* an error that is not an *HTTPError, with the text of its Error()
PlainError(text) == [kind |-> "error", StatusCode |-> 0, Message |-> text, Err |-> ""]

\* a panic unwinding through the chain
Panic == [kind |-> "panic", StatusCode |-> 0, Message |-> "", Err |-> ""]

ErrNotFound == NewHTTPError(404, "Not Found", "")
ErrUnauthorized == NewHTTPError(401, "Unauthorized", "")
ErrForbidden == NewHTTPError(403, "Forbidden", "cause")
ErrRecovered == NewHTTPError(500, "Internal Server Error", "")
ErrPlain == PlainError("boom")

\* what a handler can do with one request: write a 200 response or not, then
\* return nil, return an *HTTPError, return another error, or panic
HandlerBehaviours == [write : BOOLEAN, outcome : {"nil", "httperr", "err", "panic"}]

HandlerOutcome(hb) ==
    IF hb.outcome = "nil" THEN NilErr
    ELSE IF hb.outcome = "httperr" THEN ErrForbidden
    ELSE IF hb.outcome = "err" THEN ErrPlain
    ELSE IF hb.outcome = "notfound" THEN ErrNotFound
    ELSE Panic

\* Engine.Use, once for each unit
Use(u) ==
    /\ \A i \in 1..Len(mw) : mw[i] # u
    /\ mw' = Append(mw, u)
    /\ UNCHANGED <<grpMw, resp>>
    /\ UNCHANGED nonDispatchVars

\* RouterGroup.Use
GroupUse(u) ==
    /\ grpMw = <<>>
    /\ grpMw' = Append(grpMw, u)
    /\ UNCHANGED <<mw, resp>>
    /\ UNCHANGED nonDispatchVars

\* RouterGroup.GET(path, handler).Before(before...).After(after...).Handler()
GroupRoute(method, path, handler, before, after) ==
    Handler(method, GroupPrefix \o path, handler, grpMw \o before, after)

\* a HandlerFunc: the units wrapped around a handler, the outermost first
Wrap(u, handler) == [handler EXCEPT !.units = <<u>> \o @]

\* for i := len(middleware) - 1; i >= 0; i-- { handler = middleware[i](handler) }
RECURSIVE ApplyDown(_, _, _)
ApplyDown(handler, middleware, i) ==
    IF i < 1 THEN handler
    ELSE ApplyDown(Wrap(middleware[i], handler), middleware, i - 1)

\* applyMiddleware wrapping from the first unit to the last
applyMiddleware_Forward(handler, middleware) ==
    ApplyDown(handler,
              [i \in 1..Len(middleware) |-> middleware[Len(middleware) + 1 - i]],
              Len(middleware))

\* applyMiddleware: the first unit of the list ends up outermost
applyMiddleware(handler, middleware) == ApplyDown(handler, middleware, Len(middleware))

\* chainedHandler of MatchRoute: after units around the handler, before units
\* around that
Chained(rt) ==
    applyMiddleware(applyMiddleware([units |-> <<>>, h |-> rt.handler], rt.after), rt.before)

\* a side effect of a unit or of the handler, with the value the unit saw
\* its next call return
Event(name, at, seen) == [unit |-> name, at |-> at, ret |-> seen]

\* responseWriter.WriteHeader followed by a write of the body: every call
\* reaches the underlying writer
WriteResponse(st, statusCode, text) ==
    [st EXCEPT !.wh = Append(@, statusCode), !.body = Append(@, text)]

\* a unit that forgets to return what its next call returned
UnitReturn_Swallow(r) == NilErr

\* err := next(c); ...; return err
UnitReturn(r) == r.ret

\* the deferred function of RecoveryMiddleware
Recover(r) == IF r.ret.kind = "panic" THEN [r EXCEPT !.ret = ErrRecovered] ELSE r

\* the handler: c.JSON(200, ...) when it writes, then its outcome
RunHandler(hb, st) ==
    LET entered == [st EXCEPT !.trace = Append(@, Event("H", "run", "-"))]
    IN  [st |-> IF hb.write THEN WriteResponse(entered, 200, "ok") ELSE entered,
         ret |-> HandlerOutcome(hb)]

\* the call of a chained handler: each unit runs its before portion, calls
\* next unless it short-circuits with an error, and runs its after portion
\* when next returned; a panic unwinds up to RecoveryMiddleware
\* what a unit does when its next call has returned r
AfterNext(u, r) ==
    IF r.ret.kind = "panic" THEN r
    ELSE [st |-> [r.st EXCEPT !.trace = Append(@, Event(u, "after", r.ret.kind))],
          ret |-> UnitReturn(r)]

RECURSIVE Call(_, _, _, _)
Call(units, hb, shortAt, st) ==
    IF units = <<>> THEN RunHandler(hb, st)
    ELSE IF Head(units) = "Rec" THEN Recover(Call(Tail(units), hb, shortAt, st))
    ELSE LET u == Head(units)
             entered == [st EXCEPT !.trace = Append(@, Event(u, "before", "-"))]
         IN  IF u = shortAt THEN [st |-> entered, ret |-> ErrUnauthorized]
             ELSE AfterNext(u, Call(Tail(units), hb, shortAt, entered))

\* defaultErrorHandler writing err.Error() for every error
defaultErrorHandler_Leak(err, st, jsonFails) ==
    LET message == IF err.Err # "" THEN err.Message \o err.Err ELSE err.Message
        statusCode == IF err.kind = "HTTPError" THEN err.StatusCode ELSE 500
        seen == [st EXCEPT !.errs = Append(@, err)]
    IN  WriteResponse(seen, statusCode, message)

\* defaultErrorHandler: c.JSON(statusCode, {"error": message}) and, when that
\* returns an error, c.String(statusCode, message)
defaultErrorHandler(err, st, jsonFails) ==
    LET statusCode == IF err.kind = "HTTPError" THEN err.StatusCode ELSE 500
        message == IF err.kind = "HTTPError" THEN err.Message ELSE "Internal Server Error"
        seen == [st EXCEPT !.errs = Append(@, err)]
        json == WriteResponse(seen, statusCode, message)
    IN  IF jsonFails THEN WriteResponse(json, statusCode, message) ELSE json

\* newContext: nothing written yet
NewContext == [trace |-> <<>>, wh |-> <<>>, body |-> <<>>, errs |-> <<>>]

\* ServeHTTP sending a request without a route through the global middleware
ServeResult_GlobalFirst(method, best, hb, shortAt, jsonFails) ==
    LET final == IF best.handler = "nil"
                 THEN applyMiddleware([units |-> <<>>, h |-> "nil"], mw)
                 ELSE applyMiddleware(Chained(routes[method][best.pattern]), mw)
        r == Call(final.units,
                  IF best.handler = "nil" THEN [write |-> FALSE, outcome |-> "notfound"] ELSE hb,
                  shortAt, NewContext)
    IN  IF r.ret.kind = "panic" THEN [st |-> r.st, aborted |-> TRUE]
        ELSE IF r.ret.kind # "nil"
        THEN [st |-> defaultErrorHandler(r.ret, r.st, jsonFails), aborted |-> FALSE]
        ELSE [st |-> r.st, aborted |-> FALSE]

\* the body of ServeHTTP after MatchRoute returned best
ServeResult(method, best, hb, shortAt, jsonFails) ==
    IF best.handler = "nil"
    THEN [st |-> defaultErrorHandler(ErrNotFound, NewContext, jsonFails), aborted |-> FALSE]
    ELSE LET final == applyMiddleware(Chained(routes[method][best.pattern]), mw)
             r == Call(final.units, hb, shortAt, NewContext)
         IN  IF r.ret.kind = "panic" THEN [st |-> r.st, aborted |-> TRUE]
             ELSE IF r.ret.kind # "nil"
             THEN [st |-> defaultErrorHandler(r.ret, r.st, jsonFails), aborted |-> FALSE]
             ELSE [st |-> r.st, aborted |-> FALSE]

\* the record of a ServeHTTP call: the route MatchRoute returned, the chain
\* and the inputs of the request, and what the call did
Served(best, rt, res, hb, shortAt, jsonFails) ==
    [handler |-> best.handler, pattern |-> best.pattern, global |-> mw,
     before |-> rt.before, after |-> rt.after, hb |-> hb, shortAt |-> shortAt,
     jsonFails |-> jsonFails,
     trace |-> res.st.trace, wh |-> res.st.wh, body |-> res.st.body,
     errs |-> res.st.errs, aborted |-> res.aborted]

\* Engine.ServeHTTP for one request
ServeHTTP(method, path, hb, shortAt, jsonFails) ==
    /\ \E best \in {Resolve(method, path, order) : order \in RouteOrders(method)} :
          resp' = Served(best,
                         IF best.handler = "nil" THEN [before |-> <<>>, after |-> <<>>]
                         ELSE routes[method][best.pattern],
                         ServeResult(method, best, hb, shortAt, jsonFails),
                         hb, shortAt, jsonFails)
    /\ UNCHANGED <<mw, grpMw>>
    /\ UNCHANGED nonDispatchVars

\* routes and middleware are registered at startup, before requests are served
NextDispatch ==
    \/ \E u \in GlobalUnits : resp = NoResp /\ Use(u)
    \/ resp = NoResp /\ GroupUse("Grp")
    \/ \E path \in GroupPaths :
          /\ resp = NoResp
          /\ regCount < MaxRegDispatch
          /\ GroupRoute("GET", path, Handlers[regCount + 1], <<"B">>, <<"A">>)
    \/ \E path \in {PathDocsNew, PathDocs}, hb \in HandlerBehaviours,
          shortAt \in {"none", "B"}, jsonFails \in BOOLEAN :
          ServeHTTP("GET", path, hb, shortAt, jsonFails)

SpecDispatch == Init /\ [][NextDispatch]_vars

\* ------------------------------------------------------------------------
\* RouterGroup and RouteBuilder with the slices of Go: a slice is a window
\* of len elements on an array of cap elements
\* ------------------------------------------------------------------------
\* the elements a slice shows
Elems_WholeArray(heap, s) ==
    IF s.arr = 0 THEN <<>> ELSE SelectSeq(heap[s.arr], LAMBDA e : e # "")

\* the elements a slice shows: the first len elements of its array
Elems(heap, s) == [i \in 1..s.len |-> heap[s.arr][i]]

\* the capacity the runtime gives an array of n function values
RoundUp(n) == IF n <= 4 THEN n ELSE IF n <= 6 THEN 6 ELSE 8

\* the capacity of the array append allocates when the old one is too small
NewCap(oldCap, needed) ==
    IF needed > 2 * oldCap THEN RoundUp(needed) ELSE RoundUp(2 * oldCap)

\* append(s, elems...): in place behind the window when the array has room,
\* else into a new array that gets a copy of the window
SliceAppend(heap, s, elems) ==
    IF elems = <<>> THEN [heap |-> heap, s |-> s]
    ELSE IF s.len + Len(elems) <= s.cap
    THEN [heap |-> [heap EXCEPT ![s.arr] =
                        [i \in 1..s.cap |-> IF i > s.len /\ i <= s.len + Len(elems)
                                            THEN elems[i - s.len] ELSE @[i]]],
          s |-> [s EXCEPT !.len = @ + Len(elems)]]
    ELSE [heap |-> Append(heap,
                          [i \in 1..NewCap(s.cap, s.len + Len(elems)) |->
                              IF i <= s.len THEN heap[s.arr][i]
                              ELSE IF i <= s.len + Len(elems) THEN elems[i - s.len]
                              ELSE ""]),
          s |-> [arr |-> Len(heap) + 1, len |-> s.len + Len(elems),
                 cap |-> NewCap(s.cap, s.len + Len(elems))]]

\* rg.middleware = append(rg.middleware, mw)
GrpUse(u, r) ==
    /\ grp' = [grp EXCEPT !.heap = r.heap, !.mw = r.s]
    /\ UNCHANGED nonGroupVars

\* rg.engine.router.AddRoute(method, fullPath, handler).Before(rg.middleware...):
\* the builder starts with nil slices and Before appends the elements the
\* group shows at this moment
GrpVerb(path, handler, r) ==
    /\ grp' = [grp EXCEPT !.heap = r.heap,
                          !.bld = Append(@, [path |-> GroupPrefix \o path, handler |-> handler,
                                             before |-> r.s, after |-> NilSlice,
                                             stored |-> FALSE,
                                             captured |-> Elems(grp.heap, grp.mw),
                                             own |-> <<>>, ownAfter |-> <<>>])]
    /\ UNCHANGED nonGroupVars

\* rb.beforeMW = append(rb.beforeMW, mw...)
BuilderBefore(i, u, r) ==
    /\ grp' = [grp EXCEPT !.heap = r.heap, !.bld[i].before = r.s,
                          !.bld[i].own = IF grp.bld[i].stored THEN @ ELSE Append(@, u),
                          !.calls = @ + 1]
    /\ UNCHANGED nonGroupVars

\* rb.afterMW = append(rb.afterMW, mw...)
BuilderAfter(i, u, r) ==
    /\ grp' = [grp EXCEPT !.heap = r.heap, !.bld[i].after = r.s,
                          !.bld[i].ownAfter = IF grp.bld[i].stored THEN @ ELSE Append(@, u),
                          !.calls = @ + 1]
    /\ UNCHANGED nonGroupVars

\* Handler: the route gets the slices of the builder (array, len, cap)
BuilderHandler(i) ==
    /\ ~grp.bld[i].stored
    /\ grp' = [grp EXCEPT !.rts = MapPut(@, grp.bld[i].path,
                                         [handler |-> grp.bld[i].handler,
                                          before |-> grp.bld[i].before,
                                          after |-> grp.bld[i].after]),
                          !.bld[i].stored = TRUE]
    /\ UNCHANGED nonGroupVars

\* MatchRoute for a request of the route: the chain is built from the
\* elements the slices of the route show now
GrpMatch(i) ==
    /\ grp.bld[i].stored
    /\ grp' = [grp EXCEPT !.ran =
                  <<[route |-> i,
                     units |-> Chained([handler |-> grp.rts[grp.bld[i].path].handler,
                                        before |-> Elems(grp.heap, grp.rts[grp.bld[i].path].before),
                                        after |-> Elems(grp.heap, grp.rts[grp.bld[i].path].after)]
                                      ).units]>>]
    /\ UNCHANGED nonGroupVars

\* Use, verb calls, Before, After and Handler in any order, and requests
NextGroup ==
    \/ /\ grp.mw.len < MaxGroupUse
       /\ GrpUse(GroupUses[grp.mw.len + 1],
                 SliceAppend(grp.heap, grp.mw, <<GroupUses[grp.mw.len + 1]>>))
    \/ /\ Len(grp.bld) < MaxGroupRoutes
       /\ GrpVerb(GroupRoutes[Len(grp.bld) + 1], Handlers[Len(grp.bld) + 1],
                  SliceAppend(grp.heap, NilSlice, Elems(grp.heap, grp.mw)))
    \/ \E i \in 1..Len(grp.bld) :
          /\ grp.calls < MaxChainCalls
          /\ BuilderBefore(i, BeforeUnits[grp.calls + 1],
                           SliceAppend(grp.heap, grp.bld[i].before,
                                       <<BeforeUnits[grp.calls + 1]>>))
    \/ \E i \in 1..Len(grp.bld), u \in {"A"} :
          /\ grp.calls < MaxChainCalls
          /\ BuilderAfter(i, u, SliceAppend(grp.heap, grp.bld[i].after, <<u>>))
    \/ \E i \in 1..Len(grp.bld) : BuilderHandler(i)
    \/ \E i \in 1..Len(grp.bld) : GrpMatch(i)

SpecGroup == Init /\ [][NextGroup]_vars


\* ------------------------------------------------------------------------
\* TimeoutMiddleware, under Engine.ServeHTTP
\* ------------------------------------------------------------------------
ErrTimeout == NewHTTPError(504, "Request timed out", "")
ErrContext == NewHTTPError(500, "Request context error", "")

\* ctx, cancel := context.WithTimeout(...); done := make(chan error, 1);
\* go func() { done <- next(c) }(): the inner chain starts in its own goroutine
TimeoutEnter(r, outcome) ==
    /\ tmo[r].pc = "idle"
    /\ tmo' = [tmo EXCEPT ![r].pc = "select", ![r].inner = "running",
                          ![r].outcome = outcome]
    /\ UNCHANGED nonTimeoutVars

\* the inner chain writes its response
InnerWrite(r) ==
    /\ tmo[r].inner = "running"
    /\ \A i \in 1..Len(tmo[r].wh) : tmo[r].wh[i].by # "inner"
    /\ tmo' = [tmo EXCEPT ![r].wh = Append(@, [by |-> "inner", status |-> 200])]
    /\ UNCHANGED nonTimeoutVars

\* done <- next(c): the buffer of one takes the outcome; a middleware parked
\* in the select is woken with the case of done
InnerComplete(r) ==
    /\ tmo[r].inner = "running"
    /\ tmo' = [tmo EXCEPT ![r].inner = "finished",
                          ![r].done = <<tmo[r].outcome>>,
                          ![r].first = IF @ = "" THEN "inner" ELSE @,
                          ![r].woken = IF tmo[r].pc = "parked" /\ @ = "" THEN "done" ELSE @]
    /\ UNCHANGED nonTimeoutVars

\* ctx.Done() is closed with the error err; a middleware parked in the
\* select is woken with the case of ctx.Done()
CtxClose(t, err) ==
    [t EXCEPT !.ctxErr = err,
              !.first = IF @ = "" THEN err ELSE @,
              !.woken = IF t.pc = "parked" /\ @ = "" THEN "ctx" ELSE @]

\* the timer of context.WithTimeout fires
DeadlineFire(r) ==
    /\ tmo[r].pc \in {"select", "parked"}
    /\ tmo[r].ctxErr = ""
    /\ tmo' = [tmo EXCEPT ![r] = CtxClose(@, "DeadlineExceeded")]
    /\ UNCHANGED nonTimeoutVars

\* the context of the request is cancelled: the client went away
ParentCancel(r) ==
    /\ tmo[r].pc \in {"select", "parked"}
    /\ tmo[r].ctxErr = ""
    /\ tmo' = [tmo EXCEPT ![r] = CtxClose(@, "Canceled")]
    /\ UNCHANGED nonTimeoutVars

\* the cases of the select that are ready
SelectCases(t) ==
    (IF t.done # <<>> THEN {"done"} ELSE {}) \cup (IF t.ctxErr # "" THEN {"ctx"} ELSE {})

\* the return of the middleware by the case the select took, and the deferred
\* cancel()
TimeoutReturn(t, case) ==
    [t EXCEPT !.pc = "returned",
              !.ret = Append(@, IF case = "done" THEN t.done[1]
                                ELSE IF t.ctxErr = "DeadlineExceeded" THEN ErrTimeout
                                ELSE ErrContext),
              !.done = IF case = "done" THEN <<>> ELSE @,
              !.ctxErr = IF @ = "" THEN "Canceled" ELSE @]

\* the middleware reaches the select: it takes one of the ready cases, or
\* parks when none is ready
TimeoutSelect(r) ==
    /\ tmo[r].pc = "select"
    /\ IF SelectCases(tmo[r]) = {}
       THEN tmo' = [tmo EXCEPT ![r].pc = "parked"]
       ELSE \E case \in SelectCases(tmo[r]) : tmo' = [tmo EXCEPT ![r] = TimeoutReturn(@, case)]
    /\ UNCHANGED nonTimeoutVars

\* the parked middleware runs again with the case that woke it
TimeoutWake(r) ==
    /\ tmo[r].pc = "parked"
    /\ tmo[r].woken # ""
    /\ tmo' = [tmo EXCEPT ![r] = TimeoutReturn(@, tmo[r].woken)]
    /\ UNCHANGED nonTimeoutVars

\* ServeHTTP after the chain returned: errorHandler(err, c) for an error
TimeoutBoundary(r) ==
    /\ tmo[r].pc = "returned"
    /\ tmo' = [tmo EXCEPT ![r].pc = "served",
                          ![r].wh = IF tmo[r].ret[1].kind = "nil" THEN @
                                    ELSE Append(@, [by |-> "boundary",
                                                    status |-> IF tmo[r].ret[1].kind = "HTTPError"
                                                               THEN tmo[r].ret[1].StatusCode
                                                               ELSE 500])]
    /\ UNCHANGED nonTimeoutVars

NextTimeout ==
    \/ \E r \in TReqs, outcome \in {NilErr, ErrForbidden, ErrPlain} : TimeoutEnter(r, outcome)
    \/ \E r \in TReqs : InnerWrite(r)
    \/ \E r \in TReqs : InnerComplete(r)
    \/ \E r \in TReqs : DeadlineFire(r)
    \/ \E r \in TReqs : ParentCancel(r)
    \/ \E r \in TReqs : TimeoutSelect(r)
    \/ \E r \in TReqs : TimeoutWake(r)
    \/ \E r \in TReqs : TimeoutBoundary(r)

SpecTimeout == Init /\ [][NextTimeout]_vars

\* ------------------------------------------------------------------------
\* RecoveryMiddleware around the handler, directly and through
\* TimeoutMiddleware
\* ------------------------------------------------------------------------
\* the deferred functions of a goroutine that call recover(), innermost last:
\* the worker of net/http runs RecoveryMiddleware's function, which defers its
\* recover before it calls next; the goroutine started by TimeoutMiddleware
\* runs func() { done <- next(c) } and defers nothing
Deferred(goroutine) ==
    IF goroutine = "worker" THEN <<"net/http", "RecoveryMiddleware">> ELSE <<>>

\* a panic unwinds the stack of the goroutine that raised it: the innermost
\* deferred recover() of that goroutine stops it; without one the runtime
\* prints the panic and the process exits
Unwind(goroutine) ==
    IF Deferred(goroutine) = <<>> THEN "exit"
    ELSE Deferred(goroutine)[Len(Deferred(goroutine))]

\* RecoveryMiddleware's function is called and calls next(c): the handler
\* itself ("direct"), or TimeoutMiddleware's function, which starts the
\* handler in a goroutine of its own ("timed")
RecoverEnter(r, chain, outcome) ==
    /\ ~rcv.exited
    /\ rcv.req[r].pc = "idle"
    /\ rcv' = [rcv EXCEPT !.req[r].pc = IF chain = "direct" THEN "handler" ELSE "select",
                          !.req[r].chain = chain,
                          !.req[r].outcome = outcome,
                          !.req[r].inner = IF chain = "direct" THEN "none" ELSE "running"]
    /\ UNCHANGED nonRecoverVars

\* return next(c) of RecoveryMiddleware with the handler as next: the handler
\* runs in the worker; a panic reaches the deferred function, which sets err
DirectReturn(r) ==
    /\ ~rcv.exited
    /\ rcv.req[r].pc = "handler"
    /\ rcv' = [rcv EXCEPT !.req[r].pc = "returned",
                          !.req[r].ret =
                              IF rcv.req[r].outcome # Panic THEN <<rcv.req[r].outcome>>
                              ELSE IF Unwind("worker") = "RecoveryMiddleware"
                                   THEN <<ErrRecovered>> ELSE <<>>]
    /\ UNCHANGED nonRecoverVars

\* done <- next(c) in the goroutine of TimeoutMiddleware: the handler returns
\* and its outcome is sent, or it panics in this goroutine
InnerReturn(r) ==
    /\ ~rcv.exited
    /\ rcv.req[r].inner = "running"
    /\ IF rcv.req[r].outcome # Panic
       THEN rcv' = [rcv EXCEPT !.req[r].inner = "finished",
                               !.req[r].done = <<rcv.req[r].outcome>>]
       ELSE rcv' = [rcv EXCEPT !.req[r].inner = "panicked",
                               !.exited = (Unwind("inner") = "exit")]
    /\ UNCHANGED nonRecoverVars

\* the timer of context.WithTimeout fires
TimedDeadline(r) ==
    /\ ~rcv.exited
    /\ rcv.req[r].pc = "select"
    /\ rcv.req[r].ctxErr = ""
    /\ rcv' = [rcv EXCEPT !.req[r].ctxErr = "DeadlineExceeded"]
    /\ UNCHANGED nonRecoverVars

\* the select of TimeoutMiddleware takes a ready case and the middleware
\* returns through RecoveryMiddleware, whose deferred function sees no panic
TimedReturn(r) ==
    /\ ~rcv.exited
    /\ rcv.req[r].pc = "select"
    /\ \E case \in (IF rcv.req[r].done # <<>> THEN {"done"} ELSE {}) \cup
                   (IF rcv.req[r].ctxErr # "" THEN {"ctx"} ELSE {}) :
          rcv' = [rcv EXCEPT !.req[r].pc = "returned",
                             !.req[r].ret = IF case = "done" THEN rcv.req[r].done
                                            ELSE <<ErrTimeout>>]
    /\ UNCHANGED nonRecoverVars

\* ServeHTTP after the chain returned: errorHandler(err, c) for an error
RecoverBoundary(r) ==
    /\ ~rcv.exited
    /\ rcv.req[r].pc = "returned"
    /\ rcv' = [rcv EXCEPT !.req[r].pc = "served",
                          !.req[r].status =
                              IF rcv.req[r].ret[1].kind = "nil" THEN 200
                              ELSE IF rcv.req[r].ret[1].kind = "HTTPError"
                                   THEN rcv.req[r].ret[1].StatusCode
                                   ELSE 500]
    /\ UNCHANGED nonRecoverVars

NextRecover ==
    \/ \E r \in TReqs, chain \in {"direct", "timed"}, outcome \in {NilErr, ErrForbidden, Panic} :
          RecoverEnter(r, chain, outcome)
    \/ \E r \in TReqs : DirectReturn(r)
    \/ \E r \in TReqs : InnerReturn(r)
    \/ \E r \in TReqs : TimedDeadline(r)
    \/ \E r \in TReqs : TimedReturn(r)
    \/ \E r \in TReqs : RecoverBoundary(r)

SpecRecover == Init /\ [][NextRecover]_vars

\* ------------------------------------------------------------------------
\* AsyncTaskQueue: Go, the workers, Shutdown
\* ------------------------------------------------------------------------
\* Go(task) is called; the caller is about to take tq.mu
Go(k, panics) ==
    /\ tq.go[k].pc = "idle"
    /\ tq' = [tq EXCEPT !.go[k].pc = "want", !.go[k].panics = panics,
                        !.go[k].afterBegun = (tq.sd # "idle")]
    /\ UNCHANGED nonQueueVars

\* Variant: Go does not look at tq.isShuttingDown
ShuttingDown_Ignored(q) == FALSE

\* if tq.isShuttingDown
ShuttingDown(q) == q.isShuttingDown

\* tq.mu.Lock() returns in Go: the call returns at once when the queue is
\* shutting down; otherwise tq.wg.Add(1) and the send on tq.tasks begins, with
\* the mutex held until the send is done; a send on the closed channel panics
GoLocked(k) ==
    /\ tq.go[k].pc = "want"
    /\ tq.mu = 0
    /\ IF ShuttingDown(tq)
       THEN tq' = [tq EXCEPT !.go[k].pc = "done", !.go[k].afterFlag = TRUE]
       ELSE tq' = [tq EXCEPT !.go[k].pc = IF tq.tasksClosed THEN "done" ELSE "send",
                             !.mu = IF tq.tasksClosed THEN 0 ELSE k,
                             !.wg = @ + 1,
                             !.go[k].afterFlag = tq.isShuttingDown,
                             !.sendOnClosed = @ \/ tq.tasksClosed]
    /\ UNCHANGED nonQueueVars

\* tq.tasks <- task meets case task, ok := <-tq.tasks of a worker: the
\* channel has no buffer; Go returns and its deferred Unlock runs
WorkerReceive(w, k) ==
    /\ tq.wk[w].pc = "select"
    /\ tq.go[k].pc = "send"
    /\ ~tq.tasksClosed
    /\ tq' = [tq EXCEPT !.wk[w] = [pc |-> "run", task |-> k],
                        !.go[k].pc = "done", !.mu = 0,
                        !.accepted = @ \cup {k}]
    /\ UNCHANGED nonQueueVars

\* task() inside the function of the worker: a panic of the task is
\* recovered by the deferred function, then the deferred tq.wg.Done() runs,
\* and the worker goes back to its select
WorkerRun(w) ==
    /\ tq.wk[w].pc = "run"
    /\ tq' = [tq EXCEPT !.wk[w] = [pc |-> "select", task |-> 0],
                        !.ran[tq.wk[w].task] = @ + 1,
                        !.wg = @ - 1]
    /\ UNCHANGED nonQueueVars

\* the worker returns: tq.tasks is closed (ok is false) or tq.shutdown is
WorkerExit(w) ==
    /\ tq.wk[w].pc = "select"
    /\ tq.tasksClosed \/ tq.shutdownClosed
    /\ tq' = [tq EXCEPT !.wk[w].pc = "exited"]
    /\ UNCHANGED nonQueueVars

\* Shutdown() is called; it is about to take tq.mu
Shutdown ==
    /\ tq.sd = "idle"
    /\ tq' = [tq EXCEPT !.sd = "want"]
    /\ UNCHANGED nonQueueVars

\* tq.mu.Lock(); tq.isShuttingDown = true; tq.mu.Unlock()
ShutdownFlag ==
    /\ tq.sd = "want"
    /\ tq.mu = 0
    /\ tq' = [tq EXCEPT !.sd = "flagged", !.isShuttingDown = TRUE]
    /\ UNCHANGED nonQueueVars

\* close(tq.tasks); a send that is waiting on the channel panics
CloseTasks ==
    /\ tq.sd = "flagged"
    /\ tq' = [tq EXCEPT !.sd = "closed", !.tasksClosed = TRUE,
                        !.sendOnClosed = @ \/ \E k \in Callers : tq.go[k].pc = "send"]
    /\ UNCHANGED nonQueueVars

\* close(tq.shutdown)
CloseShutdown ==
    /\ tq.sd = "closed"
    /\ tq' = [tq EXCEPT !.sd = "wait", !.shutdownClosed = TRUE]
    /\ UNCHANGED nonQueueVars

\* tq.wg.Wait() returns when the counter is zero, and Shutdown returns
ShutdownReturn ==
    /\ tq.sd = "wait"
    /\ tq.wg = 0
    /\ tq' = [tq EXCEPT !.sd = "returned"]
    /\ UNCHANGED nonQueueVars

\* Go calls from several goroutines, the workers, and one Shutdown call
NextQueue ==
    \/ \E k \in Callers, panics \in BOOLEAN : Go(k, panics)
    \/ \E k \in Callers : GoLocked(k)
    \/ \E w \in QueueWorkers, k \in Callers : WorkerReceive(w, k)
    \/ \E w \in QueueWorkers : WorkerRun(w)
    \/ \E w \in QueueWorkers : WorkerExit(w)
    \/ Shutdown
    \/ ShutdownFlag
    \/ CloseTasks
    \/ CloseShutdown
    \/ ShutdownReturn

\* every goroutine that can run is scheduled; when Go and Shutdown are called
\* is up to the application, and tasks return
QueueFairness ==
    /\ \A k \in Callers : WF_vars(GoLocked(k))
    /\ \A k \in Callers : WF_vars(\E w \in QueueWorkers : WorkerReceive(w, k))
    /\ \A w \in QueueWorkers : WF_vars(WorkerRun(w))
    /\ WF_vars(ShutdownFlag) /\ WF_vars(CloseTasks) /\ WF_vars(CloseShutdown)
    /\ WF_vars(ShutdownReturn)

SpecQueue == Init /\ [][NextQueue]_vars /\ QueueFairness

\* ------------------------------------------------------------------------
\* SessionManager and AuthMiddleware
\* ------------------------------------------------------------------------
\* sm.sessions[sessionID] = Session{UserID, ExpiresAt: time.Now().Add(sessionExpiry)}
\* under a session id that GenerateSessionID never gave before
CreateSession(userID) ==
    /\ ssn' = [ssn EXCEPT !.sessions = MapPut(@, ssn.made + 1,
                                              [UserID |-> userID,
                                               ExpiresAt |-> ssn.now + sessionExpiry]),
                          !.born = MapPut(@, ssn.made + 1,
                                          [UserID |-> userID,
                                           ExpiresAt |-> ssn.now + sessionExpiry]),
                          !.made = @ + 1]
    /\ UNCHANGED nonSessionVars

\* delete(sm.sessions, sessionID); remembered for the ids that had been given
DeleteSession(sessionID) ==
    /\ ssn' = [ssn EXCEPT !.sessions = MapDel(@, sessionID),
                          !.deleted = IF sessionID \in DOMAIN ssn.born
                                      THEN @ \cup {sessionID} ELSE @]
    /\ UNCHANGED nonSessionVars

\* time passes
ClockAdvance ==
    /\ ssn' = [ssn EXCEPT !.now = @ + 1]
    /\ UNCHANGED nonSessionVars

\* one round of cleanupExpiredSessions: every session with
\* session.ExpiresAt.Before(time.Now()) is deleted
cleanupExpiredSessions ==
    /\ ssn' = [ssn EXCEPT !.sessions =
                  [id \in {i \in DOMAIN ssn.sessions : ~(ssn.sessions[i].ExpiresAt < ssn.now)}
                      |-> ssn.sessions[id]]]
    /\ UNCHANGED nonSessionVars

\* Variant: GetSession returns whatever the map holds
GetSession_NoExpiry(sessions, sessionID, now) ==
    IF sessionID \notin DOMAIN sessions THEN <<>> ELSE <<sessions[sessionID]>>

\* GetSession: nil (the empty sequence) when the id is not in the map or the
\* session's ExpiresAt is before now, else a copy of the session
GetSession(sessions, sessionID, now) ==
    IF sessionID \notin DOMAIN sessions \/ sessions[sessionID].ExpiresAt < now
    THEN <<>>
    ELSE <<sessions[sessionID]>>

\* the function of AuthMiddleware for a request whose cookie holds sessionID
\* (0 stands for the empty id of a request without session cookie): without
\* a session the cookie is cleared and the request redirected with 302, with
\* one c.Set("userID", session.UserID) and next(c)
AuthMiddleware(sessionID, session) ==
    /\ ssn' = [ssn EXCEPT !.auth =
                  <<[id |-> sessionID, now |-> ssn.now, deleted |-> ssn.deleted,
                     session |-> session,
                     cleared |-> session = <<>>,
                     status |-> IF session = <<>> THEN 302 ELSE 0,
                     data |-> IF session = <<>> THEN EmptyMap
                              ELSE MapPut(EmptyMap, "userID", session[1].UserID),
                     next |-> session # <<>>]>>]
    /\ UNCHANGED nonSessionVars

\* logins, logouts, the clock, the cleanup ticker, and requests with any
\* cookie: none, a session id that was given, one that never was
NextSession ==
    \/ \E userID \in {"u1", "u2"} : ssn.made < MaxSessions /\ CreateSession(userID)
    \/ \E sessionID \in 0..(MaxSessions + 1) : DeleteSession(sessionID)
    \/ ssn.now < MaxClock /\ ClockAdvance
    \/ cleanupExpiredSessions
    \/ \E sessionID \in 0..(MaxSessions + 1) :
          AuthMiddleware(sessionID, GetSession(ssn.sessions, sessionID, ssn.now))

SpecSession == Init /\ [][NextSession]_vars




\* ------------------------------------------------------------------------
\* Context: the request-scoped store, the response writer, JWTAuthMiddleware
\* ------------------------------------------------------------------------
CtxKeys == {"requestID", "traceID"}

\* newContext, called by Engine.ServeHTTP: a Context with its own data map
\* and a responseWriter that has recorded nothing
newContext(r) ==
    /\ ctxs[r].pc = "idle"
    /\ ctxs' = [ctxs EXCEPT ![r] = [pc |-> "chain", data |-> EmptyMap, status |-> 0, size |-> 0]]
    /\ UNCHANGED <<ctxLog, nonCtxVars>>

\* Variant: every Context shares one data map
SetData_Shared(cs, r, key, value) ==
    [x \in DOMAIN cs |-> [cs[x] EXCEPT !.data = MapPut(@, key, value)]]

\* c.data[key] = value
SetData(cs, r, key, value) == [cs EXCEPT ![r].data = MapPut(@, key, value)]

\* val, ok := c.data[key]
Lookup(c, key) ==
    IF key \in DOMAIN c.data THEN [val |-> c.data[key], ok |-> TRUE]
    ELSE [val |-> "nil", ok |-> FALSE]

\* Context.Set, called by a unit of the chain or by the handler
Set(r, key, value) ==
    /\ ctxs[r].pc \in {"chain", "handler"}
    /\ ctxs' = SetData(ctxs, r, key, value)
    /\ ctxLog' = [ctxLog EXCEPT ![r].sets = Append(@, [key |-> key, value |-> value])]
    /\ UNCHANGED nonCtxVars

\* Context.Get; the log keeps the latest result of each request, with the
\* number of Set calls made before it and the place of the caller
Get(r, key) ==
    /\ ctxs[r].pc \in {"chain", "handler"}
    /\ ctxLog' = [ctxLog EXCEPT ![r].got =
                     <<[key |-> key, val |-> Lookup(ctxs[r], key).val,
                        ok |-> Lookup(ctxs[r], key).ok,
                        n |-> Len(ctxLog[r].sets), at |-> ctxs[r].pc]>>]
    /\ UNCHANGED <<ctxs, nonCtxVars>>

\* responseWriter.WriteHeader
WriteHeader(r, statusCode) ==
    /\ ctxs[r].pc \in {"chain", "handler"}
    /\ ctxs' = [ctxs EXCEPT ![r].status = statusCode]
    /\ ctxLog' = [ctxLog EXCEPT ![r].whs = Append(@, statusCode)]
    /\ UNCHANGED nonCtxVars

\* responseWriter.Write, the underlying writer reporting size bytes written
Write(r, size) ==
    /\ ctxs[r].pc \in {"chain", "handler"}
    /\ ctxs' = [ctxs EXCEPT ![r].size = @ + size]
    /\ ctxLog' = [ctxLog EXCEPT ![r].writes = Append(@, size)]
    /\ UNCHANGED nonCtxVars

\* Context.Status
Status(c) == IF c.status = 0 THEN 200 ELSE c.status

\* strings.Split(s, sep) for a separator of one character
RECURSIVE SplitBy(_, _)
SplitBy(s, sep) ==
    LET i == IndexOf(s, sep) IN
    IF i = 0 THEN <<s>>
    ELSE <<SubSeq(s, 1, i - 1)>> \o SplitBy(SubSeq(s, i + 1, Len(s)), sep)

\* strings.ToLower on the letters that occur in the headers
LowerChar(ch) ==
    CASE ch = "B" -> "b" [] ch = "E" -> "e" [] ch = "A" -> "a" [] ch = "R" -> "r"
      [] ch = "S" -> "s" [] ch = "I" -> "i" [] ch = "C" -> "c" [] OTHER -> ch

ToLower(s) == [i \in 1..Len(s) |-> LowerChar(s[i])]

Bearer == <<"b", "e", "a", "r", "e", "r">>

\* token strings: two that GenerateJWT signed and that have not expired (for
\* users u1 and u2) and an expired one; any other string fails to verify
TokU1 == <<"t", "1">>
TokU2 == <<"t", "2">>
TokExpired == <<"t", "x">>

\* ValidateJWT: the claims of a token that parses, verifies and is valid
ValidateJWT(tokenString) ==
    IF tokenString = TokU1 THEN [err |-> FALSE, UserID |-> "u1"]
    ELSE IF tokenString = TokU2 THEN [err |-> FALSE, UserID |-> "u2"]
    ELSE [err |-> TRUE, UserID |-> ""]

ErrAuthRequired == NewHTTPError(401, "Authorization header required", "")
ErrAuthFormat == NewHTTPError(401, "Authorization header must be in 'Bearer <token>' format", "")
ErrAuthInvalid == NewHTTPError(401, "Invalid or expired token", "")

\* Variant: the error of ValidateJWT is not looked at
JWTCheck_NoValidate(authHeader) ==
    IF authHeader = <<>> THEN [next |-> FALSE, err |-> ErrAuthRequired, userID |-> ""]
    ELSE LET parts == SplitBy(authHeader, " ") IN
         IF Len(parts) # 2 \/ ToLower(parts[1]) # Bearer
         THEN [next |-> FALSE, err |-> ErrAuthFormat, userID |-> ""]
         ELSE [next |-> TRUE, err |-> NilErr, userID |-> ValidateJWT(parts[2]).UserID]

\* the checks of JWTAuthMiddleware before c.Set and next(c)
JWTCheck(authHeader) ==
    IF authHeader = <<>> THEN [next |-> FALSE, err |-> ErrAuthRequired, userID |-> ""]
    ELSE LET parts == SplitBy(authHeader, " ") IN
         IF Len(parts) # 2 \/ ToLower(parts[1]) # Bearer
         THEN [next |-> FALSE, err |-> ErrAuthFormat, userID |-> ""]
         ELSE IF ValidateJWT(parts[2]).err
         THEN [next |-> FALSE, err |-> ErrAuthInvalid, userID |-> ""]
         ELSE [next |-> TRUE, err |-> NilErr, userID |-> ValidateJWT(parts[2]).UserID]

\* JWTAuthMiddleware on a request with the given Authorization header: either
\* an error is returned, or userID is set and next(c) is called
JWTAuthMiddleware(r, authHeader) ==
    /\ ctxs[r].pc = "chain"
    /\ LET d == JWTCheck(authHeader) IN
       IF d.next
       THEN /\ ctxs' = [SetData(ctxs, r, "userID", d.userID) EXCEPT ![r].pc = "handler"]
            /\ ctxLog' = [ctxLog EXCEPT ![r].header = authHeader, ![r].next = TRUE,
                             ![r].sets = Append(@, [key |-> "userID", value |-> d.userID])]
       ELSE /\ ctxs' = [ctxs EXCEPT ![r].pc = "done"]
            /\ ctxLog' = [ctxLog EXCEPT ![r].header = authHeader, ![r].ret = d.err]
    /\ UNCHANGED nonCtxVars

\* the Authorization headers of the requests
HdrU1 == <<"B", "e", "a", "r", "e", "r", " ">> \o TokU1
HdrU2Upper == <<"B", "E", "A", "R", "E", "R", " ">> \o TokU2
HdrExpired == <<"B", "e", "a", "r", "e", "r", " ">> \o TokExpired
\* no header, valid tokens under Bearer, bearer and BEARER, an expired token,
\* a token with a wrong signature, the Basic scheme, a token without a
\* scheme, and a third word after the token
AuthHeaders == {<<>>, HdrU1, HdrU2Upper, HdrExpired,
                <<"b", "e", "a", "r", "e", "r", " ">> \o TokU2,
                <<"B", "e", "a", "r", "e", "r", " ", "t", "f">>,
                <<"B", "a", "s", "i", "c", " ">> \o TokU1,
                TokU1,
                HdrU1 \o <<" ", "x">>}

\* Requests setting and getting values of their Context
NextContext ==
    \/ \E r \in CReqs : newContext(r)
    \/ \E r \in CReqs, key \in CtxKeys, value \in {"a", "b"} :
          Len(ctxLog[1].sets) + Len(ctxLog[2].sets) < MaxSets /\ Set(r, key, value)
    \/ \E r \in CReqs, key \in CtxKeys : Get(r, key)

SpecContext == Init /\ [][NextContext]_vars

\* Requests writing their response through the responseWriter
NextWriter ==
    \/ \E r \in CReqs : newContext(r)
    \/ \E r \in CReqs, statusCode \in {200, 401, 500} :
          Len(ctxLog[r].whs) + Len(ctxLog[r].writes) < MaxWrites /\ WriteHeader(r, statusCode)
    \/ \E r \in CReqs, size \in {1, 2} :
          Len(ctxLog[r].whs) + Len(ctxLog[r].writes) < MaxWrites /\ Write(r, size)

SpecWriter == Init /\ [][NextWriter]_vars

\* Requests to routes of the group that uses JWTAuthMiddleware; the handler
\* and the units before the middleware read userID
NextAuth ==
    \/ \E r \in CReqs : newContext(r)
    \/ \E r \in CReqs, authHeader \in AuthHeaders : JWTAuthMiddleware(r, authHeader)
    \/ \E r \in CReqs : Get(r, "userID")

SpecAuth == Init /\ [][NextAuth]_vars

\* ------------------------------------------------------------------------
\* The event stream on the wire: what the serving loop writes, character by
\* character, and what the EventSource of static/index.html makes of it
\* ------------------------------------------------------------------------
\* message texts: a word, and document contents of two lines, of two
\* paragraphs, and ending in a newline
Payloads == {<<"a">>, <<"a", "b">>, <<"a", "\n", "b">>, <<"a", "\n", "\n", "b">>, <<"a", "\n">>}

\* fmt.Fprintf(c.Writer, "data: %s\n\n", msg)
DataBlock(msg) == <<"d", "a", "t", "a", ":", " ">> \o msg \o <<"\n", "\n">>

\* fmt.Fprintf(c.Writer, ": heartbeat\n\n")
HeartbeatBlock == <<":", " ", "h", "e", "a", "r", "t", "b", "e", "a", "t", "\n", "\n">>

\* case msg := <-clientChan
WriteData(msg) ==
    /\ wire' = [wire EXCEPT !.bytes = @ \o DataBlock(msg), !.msgs = Append(@, msg)]
    /\ UNCHANGED nonWireVars

\* case <-ticker.C
WriteHeartbeat ==
    /\ wire' = [wire EXCEPT !.bytes = @ \o HeartbeatBlock, !.beats = @ + 1]
    /\ UNCHANGED nonWireVars

\* the field name and the value of a line of the stream: the text before the
\* first colon and the text after it, less one leading space
FieldName(line) ==
    IF IndexOf(line, ":") = 0 THEN line ELSE SubSeq(line, 1, IndexOf(line, ":") - 1)

FieldValue(line) ==
    LET i == IndexOf(line, ":")
        v == IF i = 0 THEN <<>> ELSE SubSeq(line, i + 1, Len(line))
    IN  IF v # <<>> /\ Head(v) = " " THEN Tail(v) ELSE v

\* the event stream interpretation of the complete lines: a blank line
\* dispatches the data buffer (less its last newline) unless it is empty, a
\* line starting with a colon is a comment, a data field appends its value
\* and a newline to the buffer, other fields do not touch the data
RECURSIVE ParseLines(_, _, _)
ParseLines(lines, buf, events) ==
    IF lines = <<>> THEN events
    ELSE LET line == Head(lines) IN
         IF line = <<>>
         THEN ParseLines(Tail(lines), <<>>,
                         IF buf = <<>> THEN events
                         ELSE Append(events, SubSeq(buf, 1, Len(buf) - 1)))
         ELSE IF Head(line) = ":"
         THEN ParseLines(Tail(lines), buf, events)
         ELSE IF FieldName(line) = <<"d", "a", "t", "a">>
         THEN ParseLines(Tail(lines), buf \o FieldValue(line) \o <<"\n">>, events)
         ELSE ParseLines(Tail(lines), buf, events)

\* event.data of the onmessage calls, in order, for the characters received
Received(bytes) ==
    LET lines == SplitBy(bytes, "\n")
    IN  ParseLines(SubSeq(lines, 1, Len(lines) - 1), <<>>, <<>>)

\* One stream carrying messages and heartbeats
NextWire ==
    \/ \E msg \in Payloads : Len(wire.msgs) < MaxFrames /\ WriteData(msg)
    \/ wire.beats < MaxBeats /\ WriteHeartbeat

SpecWire == Init /\ [][NextWire]_vars



\* ------------------------------------------------------------------------
\* Properties of the router
\* ------------------------------------------------------------------------
\* the route registered under a method and a pattern
Route(method, pattern) == routes[method][pattern]

Matches(method, pattern, path) ==
    /\ method \in DOMAIN routes
    /\ pattern \in DOMAIN routes[method]
    /\ FindSubmatch(Route(method, pattern).regex, path).ok

\* C9 Resolve is deterministic: a MatchRoute call that repeats the method and
\* path of the previous call on an unchanged route table returns the same
\* handler and the same parameter bindings.
ResolveDeterministic ==
    [][(/\ calls # <<>>
        /\ calls' # <<>>
        /\ routes' = routes
        /\ calls'[1].method = calls[1].method
        /\ calls'[1].path = calls[1].path)
       => calls'[1] = calls[1]]_vars

\* C10 Literal beats parameter: when /docs/:id and /docs/new are registered
\* for the method, MatchRoute for /docs/new returns the handler of /docs/new.
LiteralBeatsParam ==
    \A i \in 1..Len(calls) :
        (/\ calls[i].path = PathDocsNew
         /\ Matches(calls[i].method, PatDocsId, PathDocsNew)
         /\ Matches(calls[i].method, PatDocsNew, PathDocsNew))
        => calls[i].handler = Route(calls[i].method, PatDocsNew).handler

\* the non-empty parts of a pattern or of a path
RECURSIVE NonEmpty(_)
NonEmpty(parts) ==
    IF parts = <<>> THEN <<>>
    ELSE IF Head(parts) = <<>> THEN NonEmpty(Tail(parts))
    ELSE <<Head(parts)>> \o NonEmpty(Tail(parts))

Segments(s) == NonEmpty(Split(s))

IsParamPart(part) == part # <<>> /\ Head(part) = ":"

\* the name of a parameter part, without the ":" and without its constraint
PartName(part) ==
    LET name == Tail(part)
        idx == IndexOf(name, "(")
    IN  IF idx # 0 THEN SubSeq(name, 1, idx - 1) ELSE name

\* the text of a path segment satisfies the constraint of a parameter part
SatisfiesPart(part, seg) ==
    /\ seg # <<>>
    /\ IndexOf(Tail(part), "(") # 0 /\ SubSeq(Tail(part), IndexOf(Tail(part), "("), Len(Tail(part))) = ConstraintNum
          => \A i \in 1..Len(seg) : seg[i] \in Digits

\* every segment of the path matches the part of the pattern at its position
SegmentsMatch(pat, path) ==
    LET ps == Segments(pat)
        ss == Segments(path)
    IN  /\ Len(ps) = Len(ss)
        /\ \A i \in 1..Len(ps) :
              IF IsParamPart(ps[i]) THEN SatisfiesPart(ps[i], ss[i]) ELSE ps[i] = ss[i]

\* each parameter name bound to the text of its own path segment
SegmentParams(pat, path) ==
    LET ps == Segments(pat)
        ss == Segments(path)
        idxs == {i \in 1..Len(ps) : IsParamPart(ps[i])}
    IN  [n \in {PartName(ps[i]) : i \in idxs} |->
            ss[CHOOSE i \in idxs : PartName(ps[i]) = n]]

\* the patterns whose variable segments are all named parameters
NamedPatterns == {PatDocsId, PatDocsNum, PatAnyNew, PatTwo}

\* C11 Parameter extraction: a MatchRoute call that returns the route of a
\* pattern with named parameters binds each name to the text of its own path
\* segment; a path whose segments match such a pattern resolves to some route;
\* a path with a segment that fails the constraint never resolves to that route.
ParamExtraction ==
    \A i \in 1..Len(calls) : \A pat \in NamedPatterns :
        (calls[i].method \in DOMAIN routes /\ pat \in DOMAIN routes[calls[i].method]) =>
            /\ SegmentsMatch(pat, calls[i].path) => calls[i].handler # "nil"
            /\ calls[i].handler = Route(calls[i].method, pat).handler =>
                  /\ SegmentsMatch(pat, calls[i].path)
                  /\ calls[i].params = SegmentParams(pat, calls[i].path)
            /\ ~SegmentsMatch(pat, calls[i].path) =>
                  calls[i].handler # Route(calls[i].method, pat).handler

\* /docs/42/ was resolved to the route of /:a/:b with a = "docs" and b = "42"
\* while /docs/new and /:a/new were registered too
ParamExtractionWitness ==
    /\ calls # <<>>
    /\ calls[1].path = PathDocs42 \o <<"/">>
    /\ calls[1].method \in DOMAIN routes
    /\ PatTwo \in DOMAIN routes[calls[1].method]
    /\ PatDocsNew \in DOMAIN routes[calls[1].method]
    /\ PatAnyNew \in DOMAIN routes[calls[1].method]
    /\ calls[1].handler = Route(calls[1].method, PatTwo).handler
    /\ calls[1].params = [n \in {<<"a">>, <<"b">>} |->
                             IF n = <<"a">> THEN <<"d", "o", "c", "s">> ELSE <<"4", "2">>]

\* the results MatchRoute can return for a method and a path
ResolveSet(method, path) ==
    {[handler |-> Resolve(method, path, order).handler,
      params |-> Resolve(method, path, order).params] : order \in RouteOrders(method)}

\* paths that do not end in "/"
TrailPaths == {PathDocsNew, PathDocs42, PathDocs}

\* C12 Trailing slash insignificance: for every registered route and every
\* path p not ending in "/", p matches the route exactly when p + "/" does,
\* with the same parameter bindings, and both resolve to the same results.
TrailingSlashInsignificant ==
    \A method \in DOMAIN routes : \A p \in TrailPaths :
        /\ \A pat \in DOMAIN routes[method] :
              LET rt == Route(method, pat)
                  a == FindSubmatch(rt.regex, p)
                  b == FindSubmatch(rt.regex, p \o <<"/">>)
              IN  /\ a.ok = b.ok
                  /\ a.ok => BindParams(rt.paramNames, a.caps) = BindParams(rt.paramNames, b.caps)
        /\ ResolveSet(method, p) = ResolveSet(method, p \o <<"/">>)

\* C20 Duplicate registration is rejected: a registration step leaves every
\* route that was already in the table, under its method and pattern, as it was.
DuplicateRejected ==
    [][\A method \in DOMAIN routes : \A pat \in DOMAIN routes[method] :
          /\ method \in DOMAIN routes'
          /\ pat \in DOMAIN routes'[method]
          /\ routes'[method][pat] = routes[method][pat]]_vars

\* ------------------------------------------------------------------------
\* Properties of the dispatch
\* ------------------------------------------------------------------------
Has(seq, x) == \E i \in 1..Len(seq) : seq[i] = x

Only(seq, x) == IF Has(seq, x) THEN <<x>> ELSE <<>>

\* the latest request matched a route
Matched(r) == r.handler \notin {"none", "nil"}

\* the latest request matched a route and no unit of its chain short-circuited
Reached(r) == Matched(r) /\ ~Has(r.global \o r.before \o r.after, r.shortAt)

\* the units of the request's chain that run code around next: the global
\* units in Use order, then the group's, the route-before, the route-after unit
NestedUnits(r) ==
    SelectSeq(r.global, LAMBDA u : u # "Rec")
        \o Only(r.before, "Grp") \o Only(r.before, "B") \o Only(r.after, "A")

Befores(units) == [i \in 1..Len(units) |-> Event(units[i], "before", "-")]

Afters(units, seen) ==
    [i \in 1..Len(units) |-> Event(units[Len(units) + 1 - i], "after", seen)]

ShortCircuit ==
    (Matched(resp) /\ resp.shortAt = "B" /\ Has(resp.before, "B")) =>
        /\ \A i \in 1..Len(resp.trace) : resp.trace[i].unit \notin {"H", "A"}
        /\ \A u \in {"G1", "G2", "Grp"} :
              Has(resp.global \o resp.before, u) =>
                  Has(resp.trace, Event(u, "after", "HTTPError"))
        /\ resp.errs = <<ErrUnauthorized>>

\* the route-before unit short-circuited under a global unit and the group unit
ShortCircuitWitness ==
    /\ Matched(resp)
    /\ resp.shortAt = "B"
    /\ Has(resp.global, "G1")
    /\ Has(resp.global, "Rec")
    /\ resp.before = <<"Grp", "B">>
    /\ resp.errs # <<>>

\* C15 Not-found bypass: a request for which MatchRoute finds no route gets
\* the error handler called once with 404 Not Found and runs no unit and no
\* handler.
NotFoundBypass ==
    resp.handler = "nil" =>
        /\ resp.errs = <<ErrNotFound>>
        /\ resp.trace = <<>>

\* no route matched /docs while global units and a route were registered
NotFoundBypassWitness ==
    /\ resp.handler = "nil"
    /\ Has(resp.global, "G1")
    /\ "GET" \in DOMAIN routes
    /\ resp.wh = <<404>>

\* C16 Recovery: with RecoveryMiddleware among the global units, a request
\* whose handler panics, before or after writing, gets the single status 500,
\* and the server serves the next request.
RecoveryOneResponse ==
    (Reached(resp) /\ Has(resp.global, "Rec") /\ resp.hb.outcome = "panic"
        /\ ~resp.jsonFails) =>
        /\ resp.wh = <<500>>
        /\ ~resp.aborted
        /\ ENABLED ServeHTTP("GET", PathDocs, [write |-> FALSE, outcome |-> "nil"],
                             "none", FALSE)

\* C17 Exactly one response per request: a request whose handler writes and
\* returns nil, returns an error without writing, or writes and then returns
\* an error, and a request stopped by a unit or without a route, has had
\* WriteHeader called exactly once on the underlying writer.
ExactlyOneResponse ==
    (/\ resp.handler # "none"
     /\ resp.hb.outcome # "panic"
     /\ ~resp.jsonFails
     /\ Reached(resp) => (resp.hb.write \/ resp.hb.outcome # "nil")) =>
        Len(resp.wh) = 1

\* C18 Error classification at the boundary: the error handler gets the error
\* a unit or the handler returned, unchanged; it reports an HTTPError with its
\* own StatusCode and Message and any other error as 500 Internal Server
\* Error; nothing it writes is the wrapped cause or the text of the other
\* error.
ErrorClassification ==
    /\ Len(resp.errs) <= 1
    /\ Reached(resp) /\ resp.hb.outcome = "httperr" => resp.errs = <<ErrForbidden>>
    /\ Reached(resp) /\ resp.hb.outcome = "err" => resp.errs = <<ErrPlain>>
    /\ \A k \in 1..Len(resp.errs) :
          LET e == resp.errs[k]
              written == IF Reached(resp) /\ resp.hb.write
                         THEN SubSeq(resp.body, 2, Len(resp.body)) ELSE resp.body
              codes == IF Reached(resp) /\ resp.hb.write
                       THEN SubSeq(resp.wh, 2, Len(resp.wh)) ELSE resp.wh
          IN  /\ written # <<>>
              /\ \A i \in 1..Len(written) :
                    /\ written[i] = IF e.kind = "HTTPError" THEN e.Message
                                    ELSE "Internal Server Error"
                    /\ codes[i] = IF e.kind = "HTTPError" THEN e.StatusCode ELSE 500
              /\ \A i \in 1..Len(resp.body) : resp.body[i] \notin {"cause", "boom"}

\* a handler's 403 with a wrapped cause went up through a global unit to the
\* error handler
ErrorClassificationWitness ==
    /\ Reached(resp)
    /\ Has(resp.global, "G1")
    /\ resp.errs = <<ErrForbidden>>
    /\ resp.wh = <<403>>
    /\ resp.body = <<"Forbidden">>

\* C19 Timeout race: when the inner chain has completed before the deadline
\* fired the middleware returns the chain's outcome unchanged; when the
\* deadline fired first it returns 504 Gateway Timeout and the context of the
\* inner chain is cancelled; the middleware returns at most once, and once
\* the deadline has fired it can return without the inner chain.
TimeoutRace ==
    \A r \in TReqs :
        /\ Len(tmo[r].ret) <= 1
        /\ (tmo[r].ret # <<>> /\ tmo[r].first = "inner") => tmo[r].ret[1] = tmo[r].outcome
        /\ (tmo[r].ret # <<>> /\ tmo[r].first = "DeadlineExceeded") =>
              (tmo[r].ret[1] = ErrTimeout /\ tmo[r].ctxErr = "DeadlineExceeded")
        /\ (tmo[r].pc \in {"select", "parked"} /\ tmo[r].ctxErr = "DeadlineExceeded") =>
              ENABLED (TimeoutSelect(r) \/ TimeoutWake(r))

\* ------------------------------------------------------------------------
\* Properties of registration
\* ------------------------------------------------------------------------
\* the registered patterns of the method whose segments fit the path
Fitting(method, path) ==
    IF method \in DOMAIN routes
    THEN {pat \in DOMAIN routes[method] : SegmentsMatch(pat, path)}
    ELSE {}

\* C27 Longest pattern wins: when one of the patterns that fit the path of a
\* MatchRoute call is strictly longer than every other one that fits, the call
\* returns the handler of that route together with the bindings of that route.
LongestPatternWins ==
    \A i \in 1..Len(calls) :
        \A pat \in Fitting(calls[i].method, calls[i].path) :
            (\A other \in Fitting(calls[i].method, calls[i].path) \ {pat} :
                Len(other) < Len(pat))
            => /\ calls[i].handler = Route(calls[i].method, pat).handler
               /\ calls[i].params = SegmentParams(pat, calls[i].path)

\* /docs/42 was resolved while /docs/:id, /docs/:id([0-9]+) and /:a/:b were
\* registered, and the result is the route of the constrained pattern
LongestPatternWinsWitness ==
    /\ calls # <<>>
    /\ calls[1].path = PathDocs42
    /\ Fitting(calls[1].method, calls[1].path) = {PatDocsId, PatDocsNum, PatTwo}
    /\ calls[1].handler = Route(calls[1].method, PatDocsNum).handler
    /\ calls[1].params = [n \in {<<"i", "d">>} |-> <<"4", "2">>]

\* C21 Registration takes effect on the verb call: for every RouteBuilder a
\* verb call has returned (with a pattern that compiles), the route is in the
\* table under its method and pattern, and a resolved request of that method
\* whose path fits the pattern is given a handler.
VerbCallRegisters ==
    ~fatal =>
    \A i \in 1..Len(builders) :
        LET b == builders[i] IN
        RegexValid(CompileParts(Split(b.path))) =>
            /\ b.method \in DOMAIN routes
            /\ b.path \in DOMAIN routes[b.method]
            /\ \A j \in 1..Len(calls) :
                  (calls[j].method = b.method /\ SegmentsMatch(b.path, calls[j].path))
                      => calls[j].handler # "nil"

\* C22 Pattern errors are registration-time only: every route in the table has
\* a matcher that compiled, and a registration that panicked left the table
\* as it was, without the route of the pattern that does not compile.
PatternErrorsAtRegistration ==
    /\ \A method \in DOMAIN routes : \A pat \in DOMAIN routes[method] :
          RegexValid(routes[method][pat].regex)
    /\ \A method \in DOMAIN routes : PatBad \notin DOMAIN routes[method]
    /\ fatal => \E i \in 1..Len(builders) : builders[i].path = PatBad

\* a registration panicked while a route registered before it is in the table
PatternErrorsAtRegistrationWitness ==
    /\ fatal
    /\ \E i \in 1..Len(builders) : builders[i].path = PatBad
    /\ \E method \in DOMAIN routes : DOMAIN routes[method] # {}

\* ------------------------------------------------------------------------
\* Properties of the Context
\* ------------------------------------------------------------------------
\* the result Get(key) must give after the first n logged Set calls
Expected(sets, n, key) ==
    LET idxs == {j \in 1..n : sets[j].key = key} IN
    IF idxs = {} THEN [val |-> "nil", ok |-> FALSE]
    ELSE [val |-> sets[CHOOSE j \in idxs : \A k \in idxs : k <= j].value, ok |-> TRUE]

\* C23 Context store: a Get returns the value of the latest Set of its key on
\* the same request, with true, and (nil, false) when the request never set
\* the key; the Sets of other keys and of other requests do not change it.
ContextStore ==
    \A r \in CReqs :
        /\ \A i \in 1..Len(ctxLog[r].got) :
              LET g == ctxLog[r].got[i] IN
              [val |-> g.val, ok |-> g.ok] = Expected(ctxLog[r].sets, g.n, g.key)
        /\ \A key \in CtxKeys :
              Lookup(ctxs[r], key) = Expected(ctxLog[r].sets, Len(ctxLog[r].sets), key)

\* request 1 set a key twice and then read the second value, while request 2
\* read the same key and found nothing
ContextStoreWitness ==
    /\ Len(ctxLog[1].sets) = 2
    /\ ctxLog[1].sets[1].key = ctxLog[1].sets[2].key
    /\ ctxLog[1].sets[1].value # ctxLog[1].sets[2].value
    /\ ctxLog[1].got # <<>>
    /\ ctxLog[1].got[1].n = 2
    /\ ctxLog[1].got[1].key = ctxLog[1].sets[2].key
    /\ ctxLog[1].got[1].val = ctxLog[1].sets[2].value
    /\ ctxLog[2].got # <<>>
    /\ ctxLog[2].got[1].key = ctxLog[1].sets[2].key
    /\ ~ctxLog[2].got[1].ok

RECURSIVE SumSeq(_)
SumSeq(q) == IF q = <<>> THEN 0 ELSE Head(q) + SumSeq(Tail(q))

\* C24 Status observer: Status() is the first status code passed to
\* WriteHeader, 200 when there was none, and the recorded size is the sum of
\* the sizes the Write calls reported.
StatusObserver ==
    \A r \in CReqs :
        ctxs[r].pc # "idle" =>
            /\ Status(ctxs[r]) = IF ctxLog[r].whs = <<>> THEN 200 ELSE ctxLog[r].whs[1]
            /\ ctxs[r].size = SumSeq(ctxLog[r].writes)

\* a header value "<scheme> <token>" whose scheme is bearer in any letter case
\* and whose token ValidateJWT accepts
ValidTokens == {TokU1, TokU2}

ValidBearer(h) ==
    /\ Len(h) > 7
    /\ ToLower(SubSeq(h, 1, 6)) = Bearer
    /\ h[7] = " "
    /\ SubSeq(h, 8, Len(h)) \in ValidTokens

TokenUser(h) == IF SubSeq(h, 8, Len(h)) = TokU1 THEN "u1" ELSE "u2"

\* C25 Authentication gate: the middleware calls next exactly for a header
\* with a valid bearer token, and then userID is the user of the token for
\* every Get in the inner chain; otherwise it returns a 401 error, does not
\* call next and leaves the Context without userID.
AuthGate ==
    \A r \in CReqs :
        ctxs[r].pc \in {"handler", "done"} =>
            /\ ctxLog[r].next <=> ValidBearer(ctxLog[r].header)
            /\ ctxLog[r].next <=> ctxs[r].pc = "handler"
            /\ ctxLog[r].next =>
                  /\ Lookup(ctxs[r], "userID") = [val |-> TokenUser(ctxLog[r].header), ok |-> TRUE]
                  /\ \A i \in 1..Len(ctxLog[r].got) :
                        ctxLog[r].got[i].at = "handler" =>
                            /\ ctxLog[r].got[i].ok
                            /\ ctxLog[r].got[i].val = TokenUser(ctxLog[r].header)
            /\ ~ctxLog[r].next =>
                  /\ ctxLog[r].ret.kind = "HTTPError"
                  /\ ctxLog[r].ret.StatusCode = 401
                  /\ "userID" \notin DOMAIN ctxs[r].data

\* one request passed the gate with an upper-case scheme and its handler read
\* the user, the other was turned away for an expired token
AuthGateWitness ==
    /\ ctxLog[1].header = HdrU2Upper
    /\ ctxLog[1].got # <<>>
    /\ ctxLog[1].got[1].at = "handler"
    /\ ctxLog[1].got[1].val = "u2"
    /\ ctxLog[2].header = HdrExpired
    /\ ctxLog[2].ret = ErrAuthInvalid
    /\ ctxs[2].pc = "done"

\* ------------------------------------------------------------------------
\* Properties of the event stream
\* ------------------------------------------------------------------------
\* C26 Stream framing: the receiver of the stream gets one event for each
\* message written, in order, whose data is exactly the message, newlines
\* included.
StreamFraming == Received(wire.bytes) = wire.msgs

\* ------------------------------------------------------------------------
\* Further properties of the broadcaster
\* ------------------------------------------------------------------------
\* the messages that reached the subscriber: written out or still queued
Delivered(c) == DataOut(out[c]) \o chans[c].buf

\* C28 A full queue only drops: a step of a Broadcast call leaves the registry
\* and the closed flag of every queue as they were, takes nothing out of a
\* queue, leaves a full queue exactly as it was, and appends the message to
\* the queue of a subscriber that has room, also after messages were dropped.
FullQueueOnlyDrops ==
    [][(bc' # bc \/ pubCount' # pubCount) =>
          /\ clients' = clients
          /\ ~panicked'
          /\ \A c \in Conns :
                /\ chans'[c].closed = chans[c].closed
                /\ IsPrefix(chans[c].buf, chans'[c].buf)
                /\ Len(chans[c].buf) = ChanCap => chans'[c] = chans[c]
                /\ (offered'[c] # offered[c] /\ Len(chans[c].buf) < ChanCap) =>
                      chans'[c].buf = Append(chans[c].buf, offered'[c][Len(offered'[c])])]_vars

\* the subscriber lost a message to a full queue, is still registered with an
\* open queue, and holds a message that was published after the lost one
FullQueueOnlyDropsWitness ==
    /\ Registered(1)
    /\ ~chans[1].closed
    /\ \E i, j \in 1..Len(offered[1]) :
          /\ i < j
          /\ ~Has(Delivered(1), offered[1][i])
          /\ Has(Delivered(1), offered[1][j])

\* C29 Cleanup is per connection: when the loop of one connection handles its
\* cancellation, the subscriber of every other connection that is still open
\* keeps its registry entry and its queue stays open, also when both
\* connections subscribed with the same document and client id.
CleanupPerConnection ==
    [][\A c \in Conns : (loop[c] = "run" /\ loop'[c] = "done") =>
          \A d \in Conns \ {c} : (req[d] = "subscribed" /\ ~gone[d]) =>
              /\ chans'[d].closed = chans[d].closed
              /\ Registered(d) => Registered(d)']_vars

\* C30 Closed is terminal: no data frame is written to a connection whose
\* queue has been closed.
ClosedIsTerminal ==
    [][\A c \in Conns : chans[c].closed => DataOut(out'[c]) = DataOut(out[c])]_vars

\* C31 Queue safety invariant: every channel stored in the registry is open,
\* and no close of a closed channel and no send on a closed channel has
\* happened.
QueueSafety ==
    /\ ~panicked
    /\ \A doc \in DOMAIN clients : \A id \in DOMAIN clients[doc] :
          ~chans[clients[doc][id]].closed

\* both connections subscribed under the same key, the channel of the second
\* was closed by a RemoveClient while the loop of the first is still running,
\* and a Broadcast was made afterwards
QueueSafetyWitness ==
    /\ sub[1] = sub[2]
    /\ req[1] # "idle" /\ req[2] # "idle"
    /\ \E c \in Conns : chans[c].closed /\ ~chans[3 - c].closed /\ loop[3 - c] = "run"
    /\ clients = EmptyMap
    /\ pubCount = MaxPubDup

\* C32 No orphan subscribers: every connection whose subscriber is in the
\* registry has a serving loop that is running.
NoOrphanSubscribers ==
    \A c \in Conns : Registered(c) => loop[c] = "run"

\* C34 Route table access is race-free: no MatchRoute read of the table is in
\* progress while Handler writes it, the process never dies of a concurrent
\* map access, and a worker can begin its read while another worker reads.
RouteTableRaceFree ==
    /\ ~(tbl.writer # <<>> /\ tbl.readers # EmptyMap)
    /\ ~tbl.crashed
    /\ \A w \in Workers :
          (~tbl.crashed /\ w \notin DOMAIN tbl.readers) =>
              ENABLED MatchBegin(w, "GET", PathDocs42)

\* C33 Broadcaster is deadlock-free and the lock is never held across a wait:
\* only a goroutine inside AddClient, RemoveClient or Broadcast holds the lock,
\* a writer holds it alone, no serving loop waiting in its select holds it,
\* and every goroutine that asks for the lock gets it and gives it back.
LockNeverHeldAcrossWait ==
    /\ [](\A g \in Goroutines :
            /\ g \in mu.w \cup mu.r => mu.pc[g] = "held"
            /\ mu.pc[g] = "wait" => g \notin mu.w \cup mu.r
            /\ g \in mu.w => (mu.w = {g} /\ mu.r = {}))
    /\ \A g \in Goroutines :
          (mu.pc[g] = "want") ~> (mu.pc[g] \in {"out", "idle"} /\ g \notin mu.w \cup mu.r)

\* a cancelled serving loop waits for the lock while its own AddClient call
\* still holds it and a Broadcast call waits too
LockNeverHeldAcrossWaitWitness ==
    \E c \in Conns, p \in Pubs :
        /\ mu.pc[<<"add", c>>] = "held"
        /\ mu.pc[<<"loop", c>>] = "want"
        /\ mu.pc[<<"pub", p>>] = "want"

\* C35 Single writer under timeout: once TimeoutMiddleware has returned the
\* 504 error of the fired deadline, the inner chain writes nothing more to the
\* response writer of the request, and the response of a request is never
\* written by both the inner chain and the error boundary.
SingleWriterUnderTimeout ==
    \A r \in TReqs :
        /\ (tmo[r].ret # <<>> /\ tmo[r].ret[1] = ErrTimeout) => ~ENABLED InnerWrite(r)
        /\ ~\E i, j \in 1..Len(tmo[r].wh) :
               tmo[r].wh[i].by = "inner" /\ tmo[r].wh[j].by = "boundary"

\* C36 Recovery covers the timed inner chain: with RecoveryMiddleware around
\* TimeoutMiddleware, a panic of the handler running under the timeout never
\* ends the server process, and the request whose handler panicked gets the
\* 500 Internal Server Error outcome.
RecoveryCoversTimedChain ==
    /\ ~rcv.exited
    /\ \A r \in TReqs :
          (rcv.req[r].chain = "timed" /\ rcv.req[r].inner = "panicked"
              /\ rcv.req[r].pc \in {"returned", "served"}) =>
          rcv.req[r].ret = <<ErrRecovered>>

\* C37 Group middleware is captured at route registration: the chain of a
\* route registered through a RouterGroup is the group middleware added with
\* Use before the verb call, in Use order, then the units given to Before
\* until Handler, then those given to After; Use calls after the verb call and
\* Before/After calls after Handler never change it, for the route as stored
\* and for the chain a request of the route ran.
GroupMiddlewareCaptured ==
    /\ \A i \in 1..Len(grp.bld) :
          grp.bld[i].stored =>
             /\ Elems(grp.heap, grp.rts[grp.bld[i].path].before) =
                   grp.bld[i].captured \o grp.bld[i].own
             /\ Elems(grp.heap, grp.rts[grp.bld[i].path].after) = grp.bld[i].ownAfter
    /\ \A k \in 1..Len(grp.ran) :
          grp.ran[k].units = grp.bld[grp.ran[k].route].captured
                                \o grp.bld[grp.ran[k].route].own
                                \o grp.bld[grp.ran[k].route].ownAfter

\* a request ran the chain of a group route that was registered with group
\* middleware and a Before unit of its own, after the group got another unit
\* and the builder another Before unit written into the array of the route
GroupMiddlewareCapturedWitness ==
    \E k \in 1..Len(grp.ran) :
        LET b == grp.bld[grp.ran[k].route]
        IN  /\ b.captured # <<>> /\ b.own # <<>>
            /\ grp.mw.len > Len(b.captured)
            /\ b.before.len > grp.rts[b.path].before.len
            /\ b.before.arr = grp.rts[b.path].before.arr

\* what C38 says apart from the Go calls that are refused: an accepted task
\* runs once, also when it panics; Shutdown returns after every accepted task
\* has finished; no send on the closed channel; every call returns
QueueGraceful ==
    /\ [](\A k \in Callers :
            /\ tq.ran[k] <= 1
            /\ tq.ran[k] = 1 => k \in tq.accepted)
    /\ \A k \in Callers : (k \in tq.accepted) ~> (tq.ran[k] = 1)
    /\ [](tq.sd = "returned" => \A k \in tq.accepted : tq.ran[k] = 1)
    /\ []~tq.sendOnClosed
    /\ (tq.sd = "want") ~> (tq.sd = "returned")
    /\ \A k \in Callers : (tq.go[k].pc = "want") ~> (tq.go[k].pc = "done")

\* C38 Task queue graceful shutdown, as stated: every accepted task is
\* executed exactly once even if it panics, Shutdown returns only after every
\* accepted task has finished, a Go call that starts after Shutdown has begun
\* enqueues nothing, and no interleaving sends on the closed channel or
\* deadlocks.
GracefulShutdown ==
    /\ QueueGraceful
    /\ [](\A k \in Callers : tq.go[k].afterBegun => k \notin tq.accepted)

\* C38 as amended: a Go call that takes the mutex after Shutdown has set
\* isShuttingDown enqueues nothing; the rest as stated.
GracefulShutdownAfterFlag ==
    /\ QueueGraceful
    /\ [](\A k \in Callers : tq.go[k].afterFlag => k \notin tq.accepted)

\* Shutdown has returned after a task that panicked ran, a Go call that began
\* after Shutdown was called was accepted, and a later Go call was refused
GracefulShutdownAfterFlagWitness ==
    /\ tq.sd = "returned"
    /\ \E k \in tq.accepted : tq.go[k].panics /\ tq.ran[k] = 1
    /\ \E k \in tq.accepted : tq.go[k].afterBegun
    /\ \E k \in Callers : tq.go[k].afterFlag /\ tq.go[k].pc = "done"

\* C39 Session gate: GetSession returns nil for an id that was never created,
\* was deleted by DeleteSession, or whose expiry time has passed, whether or
\* not the cleanup has removed it; AuthMiddleware calls next only with a
\* session, after setting userID to the UserID the session was created with,
\* and otherwise redirects without calling next.
SessionGate ==
    \A k \in 1..Len(ssn.auth) :
        LET a == ssn.auth[k]
        IN  /\ (\/ a.id \notin DOMAIN ssn.born
                \/ a.id \in a.deleted
                \/ ssn.born[a.id].ExpiresAt < a.now) => a.session = <<>>
            /\ a.next <=> a.session # <<>>
            /\ a.next => /\ a.data = MapPut(EmptyMap, "userID", ssn.born[a.id].UserID)
                         /\ a.status = 0
            /\ ~a.next => (a.status = 302 /\ a.data = EmptyMap)

\* a request came with the id of a session that has expired and is still in
\* the map, and was redirected
SessionGateWitness ==
    \E k \in 1..Len(ssn.auth) :
        /\ ssn.auth[k].id \in DOMAIN ssn.sessions
        /\ ssn.sessions[ssn.auth[k].id].ExpiresAt < ssn.auth[k].now
        /\ ssn.auth[k].id \notin ssn.auth[k].deleted
        /\ ~ssn.auth[k].next /\ ssn.auth[k].status = 302

TypeOK ==
    /\ \A c \in Conns : Len(chans[c].buf) <= ChanCap
    /\ pubCount <= Len(Contents)
====
